---- MODULE Spec2Model ----
(***************************************************************************)
(* Wake/sleep orchestration of the e-paper dashboard firmware, in its two  *)
(* variants: the coastal weather dashboard (firmware/CoastalWeather_V1.ino)*)
(* and the activity dashboard (unnamed/part_000).  One boot of the device  *)
(* is setup() followed by loop(); the device state that survives deep      *)
(* sleep is the RTC_DATA_ATTR data, the configuration lives in NVS         *)
(* (activity variant) or in config.h (weather variant).                    *)
(*                                                                         *)
(* RTC_DATA_ATTR data is taken to survive every reset the model contains,  *)
(* as the source assumes ("RTC flag to prevent repeated setup screen draws *)
(* on brownout reboot").  Durations are kept in seconds                    *)
(* (microseconds / uS_TO_S_FACTOR).                                        *)
(***************************************************************************)
EXTENDS Integers, FiniteSets, Sequences, TLC

\* ------------------------------------------------------------------ bounds
MaxRapidBoots == 6        \* largest rapidBootCount explored
MaxBootCount == 2         \* largest bootCount explored
MaxDisconnectCount == 10  \* largest usbDisconnectCount explored
MaxNegativeHours == 2     \* stored refreshHours explored go down to -MaxNegativeHours
MaxRefreshHours == 24     \* largest stored refreshHours explored
MaxActivities == 3        \* most activity records in the response explored

\* --------------------------------------------------------- program constants
CrashLoopLimit == 5             \* literal in checkCrashLoop
CRASH_LOOP_THRESHOLD == 3       \* declared, not used by checkCrashLoop
DisconnectChecks == 10          \* literal in loop()
SLEEP_DURATION_UNCONFIGURED_S == 604800
DefaultRefreshHours == 12
ClockUnavailableMinutes == 180
MinSleepMinutes == 10
MinutesPerDay == 1440
scheduleMinutes == <<360, 540, 720, 900, 1080, 1260>>
MorningMinutes == 360
numSlots == 6
TokenSafetyMargin == 300         \* "now < (tokenExpiresAt - 300)"
MaxPages == 10                   \* "if (page > 10) break"
PerPage == 30                    \* "per_page=30"

Variants == {"weather", "strava"}
WakeCauses == {"EXT0", "EXT1", "TIMER", "UNDEFINED"}
AllWakeSources == {"timer", "ext1", "ext0"}
Sources(v) == IF v = "weather" THEN {"weather", "tide", "surf"} ELSE {"activities"}
\* local times of day (minutes) sampled when the weather variant goes to sleep
SampleTimes == {355, 725, 1439}

VARIABLES
  variant,            \* which firmware is flashed
  nvs,                \* Preferences namespace "config" (activity variant)
  cfg,                \* WIFI_SSID / Strava credentials / REFRESH_HOURS in RAM
  bootCount, wasManualWake, lastFetchEpoch, lastNtpSyncEpoch, rapidBootCount,
  cachedAccessToken, tokenExpiresAt, cachedResult, setupScreenDrawn,  \* RTC
  sleepRequested, usbDisconnectCount,                                 \* RAM
  wakeup_reason,      \* esp_sleep_get_wakeup_cause()
  wakeSources,        \* wake sources enabled in the sleep controller
  sleepDurationS,     \* timer wake duration, seconds
  sleepDurationWraps, \* multiples of 2^64 us lost by the uint64_t arithmetic
  pmuIrqArmed,        \* pmu_prepare_for_esp32_sleep() has run
  timeinfo,           \* getLocalTime() as calculateNextWakeMinutes() last saw it
  sleepMinutes,       \* what calculateNextWakeMinutes() last returned
  screen,             \* what the panel shows
  pc,                 \* position of the single control thread
  gtsCaller,          \* who called go_to_deep_sleep
  \* history variables (not program state)
  consecFalse,        \* consecutive loop presence samples that read false
  consecUnrec,        \* consecutive boots with an unrecognized trigger
  sinceCounterReset,  \* unrecognized boots since the counter was last cleared
  decision,           \* readings at the moment go_to_deep_sleep decided to sleep
  bootLog,            \* what this boot's setup() has done so far
  safeRenders,        \* diagnostic screens drawn since Safe Mode was entered
  sync,               \* course of the update in progress, step by step
  serial,             \* command channel: stored preferences, last line and its reply
  acts,               \* fetchStravaData(): the page being read and what it has kept
  lastStep            \* name of the last step taken

rtc == <<bootCount, wasManualWake, lastFetchEpoch, lastNtpSyncEpoch, rapidBootCount,
         cachedAccessToken, tokenExpiresAt, cachedResult, setupScreenDrawn>>
hw == <<wakeSources, sleepDurationS, sleepDurationWraps, pmuIrqArmed>>
sched == <<timeinfo, sleepMinutes>>
hist == <<consecFalse, consecUnrec, sinceCounterReset, decision, bootLog, safeRenders>>
vars == <<variant, nvs, cfg, rtc, sleepRequested, usbDisconnectCount, wakeup_reason,
          hw, sched, screen, pc, gtsCaller, hist, sync, serial, acts, lastStep>>

EmptyConfig == [ssid |-> FALSE, creds |-> FALSE, hours |-> DefaultRefreshHours]
ZeroResult(v) == [s \in Sources(v) |-> 0]
\* present (external power is present now) and irq (the PMU holds a pending
\* VBUS interrupt, its IRQ line low) are followed only while go_to_deep_sleep()
\* is taken statement by statement
NoDecision == [taken |-> FALSE, vbus |-> FALSE, serial |-> FALSE,
               present |-> FALSE, irq |-> FALSE]
NoTime == [ok |-> FALSE, minutes |-> 0]
FreshBootLog == [net |-> FALSE, fetch |-> FALSE, render |-> FALSE, firstRun |-> FALSE,
                 heldMs |-> 0]
\* no update in progress
NoSync ==
  [force |-> FALSE, fetch |-> FALSE, wifi |-> FALSE, clock |-> FALSE,
   calls |-> <<>>, requests |-> <<>>, ok |-> {}, idx |-> 1, stale |-> FALSE,
   hadToken |-> FALSE, left |-> 0, reused |-> FALSE, tokenFailed |-> FALSE,
   page |-> 1, totalActivities |-> 0, lastPage |-> 0, drawn |-> FALSE,
   before |-> <<>>, beforeEpoch |-> 0, beforeToken |-> <<0, 0>>,
   now |-> 0, ntp |-> "none", phases |-> <<>>,
   attempts |-> 0, stream |-> "none", lineIdx |-> 0, busyMs |-> 0,
   nested |-> FALSE]

\* no command line handled yet; the stored preferences are not tracked
NoSerial == [line |-> "", reply |-> <<>>, prefs |-> <<>>, written |-> <<>>,
             sent |-> <<>>, buffer |-> 0, did |-> "none"]
\* no page of activities being read
NoActs == [page |-> <<>>, next |-> 1, kmDone |-> 0, timeHours |-> 0,
           activitiesCount |-> 0, gotLast |-> FALSE,
           last |-> [title |-> 0, date |-> 0, distance |-> 0, moving |-> 0,
                     polyline |-> 0]]

Max(a, b) == IF a >= b THEN a ELSE b

\* ------------------------------------------------------------ configuration
\* hasStravaCredentials(): client id, client secret and refresh token all set
hasStravaCredentials == cfg.creds

\* isConfigured as loadConfiguration() leaves it: the SSID is non-empty
isConfigured == cfg.ssid

\* "configuration complete" as setup() tests it: fullyConfigured = hasWifi &&
\* hasStrava (activity variant), isConfigured (weather variant)
FullyConfiguredIn(c) ==
  IF variant = "weather" THEN c.ssid ELSE c.ssid /\ c.creds

fullyConfigured == FullyConfiguredIn(cfg)

\* loadConfiguration(): RAM copy of the stored configuration.  The weather
\* variant's configuration is compiled in (config.h) and never changes.
loadConfiguration == IF variant = "weather" THEN cfg ELSE nvs

\* ------------------------------------------------------------------- Init
Init ==
  /\ variant \in Variants
  /\ nvs = EmptyConfig
  /\ cfg \in IF variant = "weather"
               THEN {[EmptyConfig EXCEPT !.ssid = b] : b \in BOOLEAN}
               ELSE {EmptyConfig}
  /\ bootCount = 0 /\ wasManualWake = FALSE /\ lastFetchEpoch = 0
  /\ lastNtpSyncEpoch = 0 /\ rapidBootCount = 0
  /\ cachedAccessToken = 0 /\ tokenExpiresAt = 0
  /\ cachedResult = ZeroResult(variant) /\ setupScreenDrawn = FALSE
  /\ sleepRequested = FALSE /\ usbDisconnectCount = 0
  /\ wakeup_reason = "UNDEFINED"
  /\ wakeSources = {} /\ sleepDurationS = 0 /\ pmuIrqArmed = FALSE
  /\ sleepDurationWraps = 0
  /\ timeinfo = NoTime /\ sleepMinutes = 0
  /\ screen = "blank"
  /\ pc = "boot" /\ gtsCaller = "none"
  /\ consecFalse = 0 /\ consecUnrec = 1 /\ sinceCounterReset = 1
  /\ decision = NoDecision /\ bootLog = FreshBootLog /\ safeRenders = 0
  /\ sync = NoSync /\ serial = NoSerial /\ acts = NoActs
  /\ lastStep = "Reset"

\* --------------------------------------------------------- boots and resets
\* What every start of setup() finds: RAM and peripherals re-initialised, RTC
\* data and NVS kept.  cause is what esp_sleep_get_wakeup_cause() will return;
\* cleared tells that the crash counter was cleared just before the restart.
StartBoot(cause, cleared) ==
  /\ pc' = "boot"
  /\ wakeup_reason' = cause
  /\ sleepRequested' = FALSE
  /\ usbDisconnectCount' = 0
  /\ cfg' = IF variant = "weather" THEN cfg ELSE EmptyConfig
  /\ wakeSources' = {} /\ sleepDurationS' = 0 /\ pmuIrqArmed' = FALSE
  /\ sleepDurationWraps' = 0
  /\ timeinfo' = NoTime /\ sleepMinutes' = 0
  /\ gtsCaller' = "none"
  /\ consecFalse' = 0
  /\ consecUnrec' = IF cause = "UNDEFINED"
                      THEN (IF consecUnrec < CrashLoopLimit THEN consecUnrec + 1
                                                            ELSE consecUnrec)
                      ELSE 0
  /\ sinceCounterReset' =
       IF cause = "UNDEFINED"
         THEN (IF cleared THEN 0 ELSE sinceCounterReset) + 1
         ELSE 0
  /\ decision' = NoDecision
  /\ bootLog' = FreshBootLog
  /\ safeRenders' = 0
  /\ UNCHANGED <<sync, acts>>

\* bound on the boots explored
BootAllowed(cause) ==
  /\ bootCount < MaxBootCount
  /\ cause = "UNDEFINED" => rapidBootCount < MaxRapidBoots

\* ------------------------------------------------------------- environment
\* The two presence signals, PMU.isVbusIn() and (bool)USBSerial, belong to the
\* environment and may change between any two readings: every reading of the
\* program is an input of the step that takes it.

\* An armed wake source fires while the device is in deep sleep.
WakeCauseOf(source) ==
  CASE source = "timer" -> "TIMER"
    [] source = "ext1" -> "EXT1"
    [] source = "ext0" -> "EXT0"

Wake ==
  /\ pc = "asleep"
  /\ \E source \in wakeSources :
       /\ BootAllowed(WakeCauseOf(source))
       /\ StartBoot(WakeCauseOf(source), FALSE)
  /\ lastStep' = "Reset"
  /\ UNCHANGED <<variant, nvs, rtc, screen, serial>>

\* Reset button, brown-out or watchdog reset: the chip restarts with an
\* undefined wake cause.  A reset is observed from the crash check onward.
HardReset ==
  /\ pc # "boot"
  /\ BootAllowed("UNDEFINED")
  /\ StartBoot("UNDEFINED", FALSE)
  /\ lastStep' = "Reset"
  /\ UNCHANGED <<variant, nvs, rtc, screen, serial>>

\* --------------------------------------------------------- stability guard
\* checkCrashLoop(): the counter it leaves and the verdict it returns
checkCrashLoopCount(reason, rapid) ==
  IF reason = "UNDEFINED" THEN rapid + 1 ELSE 0

\* the same test against the unused constant CRASH_LOOP_THRESHOLD
checkCrashLoopAtThreshold(reason, rapid) ==
  reason = "UNDEFINED" /\ rapid + 1 >= CRASH_LOOP_THRESHOLD

\* checkCrashLoop() judging the counter as it stood before this boot
checkCrashLoopStale(reason, rapid) ==
  reason = "UNDEFINED" /\ rapid + 1 >= CrashLoopLimit /\ rapid < CrashLoopLimit

checkCrashLoop(reason, rapid) ==
  reason = "UNDEFINED" /\ rapid + 1 >= CrashLoopLimit

\* The gesture seen by checkFactoryReset(): BOOT not pressed or released before
\* FACTORY_RESET_HOLD_MS ("none"), or held for the whole hold time ("held").
Gestures == {"none", "held"}

\* checkFactoryReset() with the button held: erase and ESP.restart().
FactoryReset ==
  /\ BootAllowed("UNDEFINED")
  /\ nvs' = EmptyConfig
  /\ bootCount' = 0
  /\ rapidBootCount' = 0
  /\ lastFetchEpoch' = 0
  /\ cachedResult' = IF variant = "strava" THEN ZeroResult(variant) ELSE cachedResult
  /\ StartBoot("UNDEFINED", TRUE)
  /\ lastStep' = "FactoryReset"
  /\ UNCHANGED <<variant, wasManualWake, lastNtpSyncEpoch, cachedAccessToken,
                 tokenExpiresAt, setupScreenDrawn, screen, serial>>

\* ------------------------------------------------------ data synchronisation
\* initTime(): the last-NTP-sync epoch it leaves.  recent: now - last < 43200;
\* ok: the NTP attempt obtained the time.  Epochs are 0 (never) or 1 (set).
initTime(last, recent, ok) ==
  IF last > 0 /\ recent THEN last ELSE IF ok THEN 1 ELSE last

\* What initTime() and the getLocalTime() calls after it can give: the
\* last-NTP-sync epoch left, and whether the local time is available.  An NTP
\* attempt that succeeded makes it available.
TimeOutcomes(last) ==
  {<<initTime(last, in[1], in[2]), in[3]>> :
     in \in {x \in BOOLEAN \X BOOLEAN \X BOOLEAN :
               (x[2] /\ ~(last > 0 /\ x[1])) => x[3]}}

\* shouldFetchStrava(): never fetched, no clock, or the refresh interval elapsed
shouldFetchStrava(clock, due) == lastFetchEpoch = 0 \/ ~clock \/ due

\* resetCrashCounter(), called when a dashboard update has been drawn
resetCrashCounter == 0

\* What an update leaves untouched when the network is not reached.
SyncKeepsRetained ==
  UNCHANGED <<lastNtpSyncEpoch, cachedAccessToken, tokenExpiresAt, cachedResult,
              lastFetchEpoch>>

\* updateWeatherAndDisplay() up to the drawing: connectWiFi, initTime, the three
\* independent fetches, the timestamp.  c is the configuration in RAM.
SyncWeather(c) ==
  \E wifi \in {FALSE, c.ssid} :
    IF wifi
      THEN \E tc \in TimeOutcomes(lastNtpSyncEpoch) :
           \E ok \in {f \in [Sources("weather") -> BOOLEAN] : f["tide"] => tc[2]} :
             /\ lastNtpSyncEpoch' = tc[1]
             /\ cachedResult' = [src \in Sources("weather") |->
                                   IF ok[src] THEN 1 ELSE cachedResult[src]]
             /\ lastFetchEpoch' = IF tc[2] THEN 1 ELSE lastFetchEpoch
             /\ UNCHANGED <<cachedAccessToken, tokenExpiresAt>>
      ELSE SyncKeepsRetained

\* The pipeline connectWiFi -> initTime -> refreshAccessToken ->
\* fetchStravaData of fetchStravaDataWithValidation() and of the FETCH_STRAVA
\* command.  res is how far it got.
StravaResults == {"wifi_failed", "token_failed", "fetched"}

\* tokenExpiresAt - now at the moment of the test: at the safety margin and
\* one second above it
ExpiryMargins == {TokenSafetyMargin, TokenSafetyMargin + 1}

\* a validity test without the safety margin
tokenValidWithoutMargin(token, expiry, secondsLeft) ==
  token # 0 /\ expiry > 0 /\ secondsLeft > 0

\* "cachedAccessToken[0] != '\0' && tokenExpiresAt > 0 &&
\* now < (tokenExpiresAt - 300)", with secondsLeft = tokenExpiresAt - now
tokenStillValid(token, expiry, secondsLeft) ==
  token # 0 /\ expiry > 0 /\ secondsLeft > TokenSafetyMargin

\* refreshAccessToken(): the cached token is reused while it is fresh
\* (now < tokenExpiresAt - 300), otherwise the refresh token is exchanged.
\* The outcomes <<cachedAccessToken, tokenExpiresAt, has a token>> over the
\* freshness of the cache and the success of the exchange.
refreshAccessToken(c, token, expiry) ==
  {LET cached == tokenStillValid(token, expiry, in[1])
       exchanged == c.creds /\ ~cached /\ in[2]
   IN <<IF exchanged THEN 1 ELSE token, IF exchanged THEN 1 ELSE expiry,
        c.creds /\ (cached \/ exchanged)>> : in \in ExpiryMargins \X BOOLEAN}

StravaPipeline(c, res) ==
  IF res = "wifi_failed"
    THEN SyncKeepsRetained
    ELSE
      /\ c.ssid
      /\ \E tc \in TimeOutcomes(lastNtpSyncEpoch),
            tok \in refreshAccessToken(c, cachedAccessToken, tokenExpiresAt) :
           /\ (res = "fetched") = tok[3]
           /\ lastNtpSyncEpoch' = tc[1]
           /\ cachedAccessToken' = tok[1]
           /\ tokenExpiresAt' = tok[2]
           /\ IF res = "fetched"
                THEN \E got \in BOOLEAN :
                       /\ cachedResult' = [src \in Sources("strava") |->
                                             IF got THEN 1 ELSE 0]
                       /\ lastFetchEpoch' = IF tc[2] THEN 1 ELSE lastFetchEpoch
                ELSE UNCHANGED <<cachedResult, lastFetchEpoch>>

\* updateStravaAndDisplay(forceFetch) up to the drawing
SyncStrava(c, forceFetch) ==
  \E fetch \in {forceFetch \/ shouldFetchStrava(clock, due) :
                   clock \in BOOLEAN, due \in BOOLEAN} :
    IF fetch
      THEN \E res \in StravaResults : StravaPipeline(c, res)
      ELSE \E wifi \in {FALSE, c.ssid} :
           \E tc \in (IF wifi THEN TimeOutcomes(lastNtpSyncEpoch)
                              ELSE {<<lastNtpSyncEpoch, FALSE>>}) :
             /\ lastNtpSyncEpoch' = tc[1]
             /\ UNCHANGED <<cachedAccessToken, tokenExpiresAt, cachedResult,
                            lastFetchEpoch>>

\* Whether handleSerialCommands(), polled by connectWiFi() while it waits for
\* the association, meets a GO_SLEEP line.
MidConnectGoSleep(c) == IF c.ssid THEN BOOLEAN ELSE {FALSE}

\* updateWeatherAndDisplay() / updateStravaAndDisplay(forceFetch): the
\* synchronisation, then the dashboard is drawn and the crash counter cleared.
\* log tells whether the update belongs to setup().
UpdateAndDisplay(c, forceFetch, log) ==
  /\ IF variant = "weather" THEN SyncWeather(c) ELSE SyncStrava(c, forceFetch)
  /\ screen' = "dashboard"
  /\ rapidBootCount' = resetCrashCounter
  /\ sinceCounterReset' = 0
  /\ bootLog' = IF log
                  THEN [bootLog EXCEPT !.net = c.ssid, !.fetch = c.ssid,
                                       !.render = TRUE]
                  ELSE bootLog

\* ---------------------------------------------------------------- setup()
\* a decision that updates on every wake
shouldUpdateAlways(reason, boots) == TRUE

\* a decision that updates only on the button, the timer and the first boot
shouldUpdateRecognized(reason, boots) ==
  reason = "EXT1" \/ reason = "TIMER" \/ boots = 1

\* The fetch decision of a configured boot (setup(), "Decide if we should
\* fetch and draw").
shouldUpdate(reason, boots) ==
  IF reason = "EXT0" THEN FALSE
  ELSE IF reason = "EXT1" THEN TRUE
  ELSE IF reason = "TIMER" THEN TRUE
  ELSE IF reason = "UNDEFINED" \/ boots = 1 THEN TRUE
  ELSE TRUE

\* print_wakeup_reason(): only the button sets the manual-wake flag
manualWakeOf(reason) == reason = "EXT1"

\* setup() returns into loop(): bootCount++ is its last statement
EnterLoopFromSetup ==
  /\ bootCount' = bootCount + 1
  /\ pc' = "loop_usb"

\* enterSafeMode(): the diagnostic screen, then the terminal loop
enterSafeMode ==
  /\ pc' = "safe"
  /\ screen' = "safe"
  /\ safeRenders' = safeRenders + 1

\* setup() from its start to the wake decision: loadConfiguration,
\* checkFactoryReset, checkCrashLoop, print_wakeup_reason, the early VBUS
\* reading, and the whole branch of an unconfigured device.
SetupStabilityGuard ==
  /\ pc = "boot"
  /\ \E hold \in Gestures :
       IF hold = "held"
         THEN FactoryReset
         ELSE
           LET loaded == loadConfiguration
               crash == checkCrashLoop(wakeup_reason, rapidBootCount)
               isPowerOn == wakeup_reason = "UNDEFINED"
               draw == ~setupScreenDrawn \/ isPowerOn
           IN
           /\ cfg' = loaded
           /\ rapidBootCount' = checkCrashLoopCount(wakeup_reason, rapidBootCount)
           /\ lastStep' = "Step"
           /\ IF crash
                THEN /\ enterSafeMode
                     /\ UNCHANGED <<bootCount, wasManualWake, setupScreenDrawn,
                                    gtsCaller, bootLog>>
                ELSE
                  /\ wasManualWake' = manualWakeOf(wakeup_reason)
                  /\ UNCHANGED safeRenders
                  /\ IF ~FullyConfiguredIn(loaded)
                       THEN /\ screen' = IF draw THEN "setup" ELSE screen
                            /\ bootLog' = [bootLog EXCEPT !.firstRun = draw]
                            /\ \E usbConnected \in BOOLEAN :
                                 IF usbConnected
                                   THEN /\ setupScreenDrawn' = (draw \/ setupScreenDrawn)
                                        /\ EnterLoopFromSetup
                                        /\ UNCHANGED gtsCaller
                                   ELSE /\ setupScreenDrawn' = FALSE
                                        /\ pc' = "gts"
                                        /\ gtsCaller' = "setup"
                                        /\ UNCHANGED bootCount
                       ELSE /\ pc' = IF shouldUpdate(wakeup_reason, bootCount)
                                       THEN "setup_update" ELSE "setup_tail"
                            /\ UNCHANGED <<screen, bootLog, setupScreenDrawn,
                                           bootCount, gtsCaller>>
           /\ UNCHANGED <<variant, nvs, lastFetchEpoch, lastNtpSyncEpoch,
                          cachedAccessToken, tokenExpiresAt, cachedResult,
                          sleepRequested, usbDisconnectCount, wakeup_reason, hw,
                          sched, consecFalse, consecUnrec, sinceCounterReset,
                          decision, sync, serial, acts>>

\* setup(): the update of a configured boot that decided to fetch
SetupUpdate ==
  /\ pc = "setup_update"
  /\ UpdateAndDisplay(cfg, bootCount = 1 \/ wasManualWake \/ wakeup_reason = "TIMER",
                      TRUE)
  /\ \E goSleep \in MidConnectGoSleep(cfg) :
       sleepRequested' = (sleepRequested \/ goSleep)
  /\ pc' = "setup_tail"
  /\ lastStep' = "Step"
  /\ UNCHANGED <<variant, nvs, cfg, bootCount, wasManualWake, setupScreenDrawn,
                 usbDisconnectCount, wakeup_reason, wakeSources,
                 sleepDurationS, sleepDurationWraps, pmuIrqArmed, sched, gtsCaller,
                 consecFalse,
                 consecUnrec, decision, safeRenders, sync, serial, acts>>

\* setup(): "Check USB status AFTER any updates"
SetupTail ==
  /\ pc = "setup_tail"
  /\ \E usbConnected \in BOOLEAN :
       IF usbConnected
         THEN EnterLoopFromSetup /\ UNCHANGED gtsCaller
         ELSE pc' = "gts" /\ gtsCaller' = "setup" /\ UNCHANGED bootCount
  /\ lastStep' = "Step"
  /\ UNCHANGED <<variant, nvs, cfg, wasManualWake, lastFetchEpoch, lastNtpSyncEpoch,
                 rapidBootCount, cachedAccessToken, tokenExpiresAt, cachedResult,
                 setupScreenDrawn, sleepRequested, usbDisconnectCount, wakeup_reason,
                 hw, sched, screen, hist, sync, serial, acts>>

\* ------------------------------------------------------ go_to_deep_sleep()
\* the scan with ">=" for ">": a slot equal to the current minute is taken
RECURSIVE scanScheduleInclusive(_, _)
scanScheduleInclusive(i, currentTotalMinutes) ==
  IF i > numSlots
    THEN (MinutesPerDay - currentTotalMinutes) + MorningMinutes
    ELSE IF scheduleMinutes[i] >= currentTotalMinutes
           THEN Max(MinSleepMinutes, scheduleMinutes[i] - currentTotalMinutes)
           ELSE scanScheduleInclusive(i + 1, currentTotalMinutes)

\* calculateNextWakeMinutes(): the scan of the schedule table from slot i
RECURSIVE scanSchedule(_, _)
scanSchedule(i, currentTotalMinutes) ==
  IF i > numSlots
    THEN (MinutesPerDay - currentTotalMinutes) + MorningMinutes
    ELSE IF scheduleMinutes[i] > currentTotalMinutes
           THEN Max(MinSleepMinutes, scheduleMinutes[i] - currentTotalMinutes)
           ELSE scanSchedule(i + 1, currentTotalMinutes)

\* calculateNextWakeMinutes(): clock tells whether getLocalTime() succeeded,
\* currentTotalMinutes is tm_hour * 60 + tm_min
calculateNextWakeMinutes(clock, currentTotalMinutes) ==
  IF ~clock THEN ClockUnavailableMinutes ELSE scanSchedule(1, currentTotalMinutes)

\* sleepDuration of the weather variant, in seconds
weatherSleepDuration(configured, minutes) ==
  IF ~configured THEN SLEEP_DURATION_UNCONFIGURED_S ELSE minutes * 60

\* sleepDuration of the activity variant, in seconds, from the stored
\* configuration re-read at sleep time
stravaSleepDuration(hasConfig, refreshHours) ==
  IF ~hasConfig THEN SLEEP_DURATION_UNCONFIGURED_S ELSE refreshHours * 60 * 60

\* (uint64_t)x * 60ULL * 60ULL * 1000000ULL for an int x: the product is taken
\* modulo 2^64, so a negative x yields 2^64 us plus the (negative) integer
\* product; |x| < 2^31 keeps every product of a non-negative x below 2^64.
\* The model holds the integer product in seconds and the multiples of 2^64.
uint64Wraps(x) == IF x < 0 THEN 1 ELSE 0

\* the refusal test inverted
sleepRefusedInverted(usbNowConnected) == ~usbNowConnected

\* "if (usbNowConnected) return": the refusal test at the top
sleepRefused(usbNowConnected) == usbNowConnected

\* the wake sources without the PMU IRQ line
wakeSourcesWithoutPmuIrq == {"timer", "ext1"}

\* the wake sources go_to_deep_sleep() enables: timer, ext1 (BOOT button),
\* ext0 (PMU IRQ)
armedWakeSources == {"timer", "ext1", "ext0"}

\* what getLocalTime() can give calculateNextWakeMinutes()
LocalTimes(minutes) ==
  {NoTime} \cup {[ok |-> TRUE, minutes |-> m] : m \in minutes}

\* go_to_deep_sleep(): a refused attempt returns to the caller; otherwise the
\* wake sources are armed and esp_deep_sleep_start() powers the chip down,
\* which loses the RAM.  serialNow is the state of the serial link at that
\* moment, which the function does not read.
go_to_deep_sleep ==
  /\ pc = "gts"
  /\ \E usbNowConnected \in BOOLEAN :
       IF sleepRefused(usbNowConnected)
         THEN /\ IF gtsCaller = "setup"
                   THEN EnterLoopFromSetup
                   ELSE pc' = "loop_usb" /\ UNCHANGED bootCount
              /\ lastStep' = "SleepRefused"
              /\ UNCHANGED <<cfg, hw, sched, decision, sleepRequested,
                             usbDisconnectCount, consecFalse, bootLog>>
         ELSE /\ IF variant = "weather"
                   THEN \E tm \in LocalTimes(SampleTimes) :
                          /\ timeinfo' = tm
                          /\ sleepMinutes' = calculateNextWakeMinutes(tm.ok, tm.minutes)
                          /\ sleepDurationS' =
                               weatherSleepDuration(isConfigured, sleepMinutes')
                          /\ sleepDurationWraps' = uint64Wraps(sleepDurationS')
                          /\ UNCHANGED cfg
                   ELSE /\ sleepDurationS' = stravaSleepDuration(nvs.ssid, nvs.hours)
                        /\ sleepDurationWraps' = uint64Wraps(sleepDurationS')
                        /\ cfg' = EmptyConfig
                        /\ UNCHANGED sched
              /\ wakeSources' = armedWakeSources
              /\ pmuIrqArmed' = TRUE
              /\ \E serialNow \in BOOLEAN :
                   decision' = [NoDecision EXCEPT !.taken = TRUE,
                                                   !.vbus = usbNowConnected,
                                                   !.serial = serialNow]
              /\ pc' = "asleep"
              /\ sleepRequested' = FALSE
              /\ usbDisconnectCount' = 0
              /\ consecFalse' = 0
              /\ bootLog' = FreshBootLog
              /\ lastStep' = "Step"
              /\ UNCHANGED bootCount
  /\ gtsCaller' = "none"
  /\ UNCHANGED <<variant, nvs, wasManualWake, lastFetchEpoch, lastNtpSyncEpoch,
                 rapidBootCount, cachedAccessToken, tokenExpiresAt, cachedResult,
                 setupScreenDrawn, wakeup_reason, screen, consecUnrec,
                 sinceCounterReset, safeRenders, sync, serial, acts>>

\* ----------------------------------------------------------------- loop()
\* One iteration of loop() is: the presence sample when one is due, the
\* waiting command line if any, the sleep-request test, the BOOT button.  The
\* sample is one step; the rest is one step per command, or the step of the
\* button when no line is waiting.  An iteration that meets a line and a
\* pressed button is the iteration of the line followed by that of the button.

\* "usbActuallyConnected = pmuSaysConnected || serialWorks" over all readings
PresenceSamples ==
  {pmuSaysConnected \/ serialWorks :
     pmuSaysConnected \in BOOLEAN, serialWorks \in BOOLEAN}

\* a counter that a present sample does not reset
disconnectCountWithoutReset(count, usbActuallyConnected) ==
  IF usbActuallyConnected THEN count ELSE count + 1

\* usbDisconnectCount after a sample
nextDisconnectCount(count, usbActuallyConnected) ==
  IF usbActuallyConnected THEN 0 ELSE count + 1

\* "Check USB status every 1 second": one presence sample when due
LoopUsbCheck ==
  /\ pc = "loop_usb"
  /\ \E due \in BOOLEAN :
       IF due
         THEN \E usbActuallyConnected \in PresenceSamples :
                /\ ~usbActuallyConnected => usbDisconnectCount < MaxDisconnectCount
                /\ usbDisconnectCount' =
                     nextDisconnectCount(usbDisconnectCount, usbActuallyConnected)
                /\ consecFalse' = IF usbActuallyConnected THEN 0 ELSE consecFalse + 1
                /\ IF usbDisconnectCount' >= DisconnectChecks
                     THEN pc' = "gts" /\ gtsCaller' = "debounce"
                     ELSE pc' = "loop_cmd" /\ UNCHANGED gtsCaller
         ELSE /\ pc' = "loop_cmd"
              /\ UNCHANGED <<usbDisconnectCount, consecFalse, gtsCaller>>
  /\ lastStep' = "Step"
  /\ UNCHANGED <<variant, nvs, cfg, rtc, sleepRequested, wakeup_reason, hw, sched,
                 screen, consecUnrec, sinceCounterReset, decision, bootLog,
                 safeRenders, sync, serial, acts>>

\* "Check if sleep was requested (from serial command)", the statement of
\* loop() that follows handleSerialCommands(): requested is the flag as the
\* commands left it; usbActuallyConnected is read only when it is set.
sleepRequestGranted(requested, usbActuallyConnected) ==
  requested /\ ~usbActuallyConnected

SleepRequestedCheck(requested) ==
  /\ sleepRequested' = FALSE
  /\ \E usbActuallyConnected \in (IF requested THEN PresenceSamples ELSE {TRUE}) :
       IF sleepRequestGranted(requested, usbActuallyConnected)
         THEN pc' = "gts" /\ gtsCaller' = "sleepreq"
         ELSE pc' = "loop_usb" /\ UNCHANGED gtsCaller

\* "BOOT BUTTON - Manual refresh", in an iteration without a command line:
\* the sleep-request test comes first.
LoopBootButton ==
  /\ pc = "loop_cmd"
  /\ LET loaded == loadConfiguration IN
     \E sleepNow \in {sleepRequestGranted(sleepRequested, u) : u \in PresenceSamples} :
       IF sleepNow
         THEN /\ sleepRequested' = FALSE
              /\ pc' = "gts" /\ gtsCaller' = "sleepreq"
              /\ UNCHANGED <<cfg, rtc, screen, sinceCounterReset, bootLog>>
         ELSE
           /\ cfg' = loaded
           /\ IF FullyConfiguredIn(loaded)
                THEN /\ UpdateAndDisplay(loaded, TRUE, FALSE)
                     /\ \E goSleep \in MidConnectGoSleep(loaded) :
                          sleepRequested' = goSleep
                     /\ \E usbActuallyConnected \in PresenceSamples :
                          IF ~usbActuallyConnected
                            THEN pc' = "gts" /\ gtsCaller' = "button"
                            ELSE pc' = "loop_usb" /\ UNCHANGED gtsCaller
                     /\ UNCHANGED <<bootCount, wasManualWake, setupScreenDrawn>>
                ELSE /\ screen' = IF setupScreenDrawn THEN screen ELSE "setup"
                     /\ setupScreenDrawn' = TRUE
                     /\ sleepRequested' = FALSE
                     /\ pc' = "loop_usb"
                     /\ UNCHANGED <<bootCount, wasManualWake, lastFetchEpoch,
                                    lastNtpSyncEpoch, rapidBootCount, cachedAccessToken,
                                    tokenExpiresAt, cachedResult,
                                    gtsCaller, sinceCounterReset, bootLog>>
  /\ lastStep' = "Step"
  /\ UNCHANGED <<variant, nvs, usbDisconnectCount, wakeup_reason,
                 wakeSources, sleepDurationS, sleepDurationWraps, pmuIrqArmed, sched,
                 consecFalse,
                 consecUnrec, decision, safeRenders, sync, serial, acts>>

\* ------------------------------------------------- processSerialCommand()
\* Where a command line can be met: handleSerialCommands() in loop(), and in
\* connectWiFi() while an update started by setup() waits for the association.
AtCommandPoint == pc = "loop_cmd" \/ (pc = "setup_update" /\ cfg.ssid)

\* the rest of the variables a command in loop() leaves alone
CommandFrame ==
  /\ lastStep' = "Step"
  /\ UNCHANGED <<variant, usbDisconnectCount, wakeup_reason, wakeSources,
                 sleepDurationS, sleepDurationWraps, pmuIrqArmed, sched, consecFalse,
                 consecUnrec,
                 decision, safeRenders, sync, serial, acts>>

\* no line waiting, or a command without effect on the controller: PING,
\* STATUS, GET_CONFIG, an unknown command
CmdNone ==
  /\ pc = "loop_cmd"
  /\ SleepRequestedCheck(sleepRequested)
  /\ CommandFrame
  /\ UNCHANGED <<nvs, cfg, rtc, screen, sinceCounterReset, bootLog>>

\* GO_SLEEP: "sleepRequested = true"
CmdGoSleep ==
  /\ pc = "loop_cmd"
  /\ SleepRequestedCheck(TRUE)
  /\ CommandFrame
  /\ UNCHANGED <<nvs, cfg, rtc, screen, sinceCounterReset, bootLog>>

\* RESTART: ESP.restart()
CmdRestart ==
  /\ AtCommandPoint
  /\ BootAllowed("UNDEFINED")
  /\ StartBoot("UNDEFINED", FALSE)
  /\ lastStep' = "Reset"
  /\ UNCHANGED <<variant, nvs, rtc, screen, serial>>

\* REFRESH (weather variant): updateWeatherAndDisplay()
CmdRefresh ==
  /\ pc = "loop_cmd"
  /\ variant = "weather"
  /\ UpdateAndDisplay(cfg, TRUE, FALSE)
  /\ \E goSleep \in MidConnectGoSleep(cfg) :
       SleepRequestedCheck(sleepRequested \/ goSleep)
  /\ CommandFrame
  /\ UNCHANGED <<nvs, cfg, bootCount, wasManualWake, setupScreenDrawn>>

\* SET_CONFIG:<json> (activity variant): saveConfigFromSerial().  Each of
\* ssid, the credential fields and refreshHours is absent from the JSON
\* (<<>>) or written (<<value>>).  The payloads explored: the WiFi settings
\* alone, and a complete configuration with refreshHours = 1.
ConfigPayloads ==
  { [ssid |-> <<TRUE>>, creds |-> <<>>, hours |-> <<>>],
    [ssid |-> <<TRUE>>, creds |-> <<TRUE>>, hours |-> <<1>>] }

saveConfigFromSerial(ssid, creds, hours) ==
  /\ nvs' = [ssid |-> IF ssid = <<>> THEN nvs.ssid ELSE ssid[1],
             creds |-> IF creds = <<>> THEN nvs.creds ELSE creds[1],
             hours |-> IF hours = <<>> THEN nvs.hours ELSE hours[1]]
  /\ cfg' = nvs'
  /\ cachedAccessToken' = IF creds = <<>> THEN cachedAccessToken ELSE 0
  /\ tokenExpiresAt' = IF creds = <<>> THEN tokenExpiresAt ELSE 0

CmdSetConfig ==
  /\ pc = "loop_cmd"
  /\ variant = "strava"
  /\ \E doc \in ConfigPayloads : saveConfigFromSerial(doc.ssid, doc.creds, doc.hours)
  /\ SleepRequestedCheck(sleepRequested)
  /\ CommandFrame
  /\ UNCHANGED <<bootCount, wasManualWake, lastFetchEpoch, lastNtpSyncEpoch,
                 rapidBootCount, cachedResult, setupScreenDrawn, screen,
                 sinceCounterReset, bootLog>>

\* wipeConfig(): NVS cleared, the credential strings in RAM cleared
\* (REFRESH_HOURS in RAM is left), the cached statistics, epochs and token
\* cleared
wipeConfig ==
  /\ nvs' = EmptyConfig
  /\ cfg' = [ssid |-> FALSE, creds |-> FALSE, hours |-> cfg.hours]
  /\ cachedResult' = ZeroResult(variant)
  /\ lastFetchEpoch' = 0
  /\ lastNtpSyncEpoch' = 0
  /\ cachedAccessToken' = 0
  /\ tokenExpiresAt' = 0

\* WIPE_CONFIG and DELETE_DATA (activity variant); DELETE_DATA also draws
\* the setup screen (wipeConfigAndShowSetup)
CmdWipe ==
  /\ pc = "loop_cmd"
  /\ variant = "strava"
  /\ wipeConfig
  /\ \E showSetup \in BOOLEAN :
       screen' = IF showSetup THEN "setup" ELSE screen
  /\ SleepRequestedCheck(sleepRequested)
  /\ CommandFrame
  /\ UNCHANGED <<bootCount, wasManualWake, rapidBootCount, setupScreenDrawn,
                 sinceCounterReset, bootLog>>

\* FETCH_STRAVA (activity variant): reload the configuration, run the
\* pipeline, draw, and request sleep when on battery
CmdFetchStrava ==
  /\ pc = "loop_cmd"
  /\ variant = "strava"
  /\ LET loaded == loadConfiguration IN
     /\ cfg' = loaded
     /\ IF ~(loaded.ssid /\ loaded.creds)
          THEN /\ SyncKeepsRetained
               /\ SleepRequestedCheck(sleepRequested)
               /\ UNCHANGED screen
          ELSE \E res \in StravaResults, vbusIn \in BOOLEAN :
                 /\ StravaPipeline(loaded, res)
                 /\ screen' = IF res = "fetched" THEN "dashboard" ELSE screen
                 /\ SleepRequestedCheck(sleepRequested
                                          \/ (res = "fetched" /\ ~vbusIn))
  /\ CommandFrame
  /\ UNCHANGED <<nvs, bootCount, wasManualWake, rapidBootCount, setupScreenDrawn,
                 sinceCounterReset, bootLog>>

\* ---------------------------------------------------------------- Safe Mode
\* a terminal loop that falls through to the command handling of loop()
SafeModeLoopHandlingCommands ==
  /\ pc = "safe"
  /\ pc' = "loop_cmd"
  /\ lastStep' = "Step"
  /\ UNCHANGED <<variant, nvs, cfg, rtc, sleepRequested, usbDisconnectCount,
                 wakeup_reason, hw, sched, screen, gtsCaller, hist, sync, serial, acts>>

\* One turn of the terminal loop of enterSafeMode(): feed the watchdog and
\* poll the factory-reset gesture.
SafeModeLoop ==
  /\ pc = "safe"
  /\ \E hold \in Gestures :
       IF hold = "held"
         THEN FactoryReset
         ELSE /\ lastStep' = "Step"
              /\ UNCHANGED <<variant, nvs, cfg, rtc, sleepRequested,
                             usbDisconnectCount, wakeup_reason, hw, sched, screen,
                             pc, gtsCaller, hist, sync, serial, acts>>

\* -------------------------------------------------------------------- Next
Next ==
  \/ Wake
  \/ HardReset
  \/ SetupStabilityGuard
  \/ SetupUpdate
  \/ SetupTail
  \/ go_to_deep_sleep
  \/ LoopUsbCheck
  \/ CmdNone
  \/ CmdGoSleep
  \/ CmdRestart
  \/ CmdRefresh
  \/ CmdSetConfig
  \/ CmdWipe
  \/ CmdFetchStrava
  \/ LoopBootButton
  \/ SafeModeLoop

Spec == Init /\ [][Next]_vars

\* ------------------------------------------- the schedule function alone
\* calculateNextWakeMinutes() applied once to every local time of day, and to
\* an unavailable clock, on a configured weather device.
InitSchedule ==
  /\ variant = "weather"
  /\ nvs = EmptyConfig
  /\ cfg = [EmptyConfig EXCEPT !.ssid = TRUE]
  /\ bootCount = 0 /\ wasManualWake = FALSE /\ lastFetchEpoch = 0
  /\ lastNtpSyncEpoch = 0 /\ rapidBootCount = 0
  /\ cachedAccessToken = 0 /\ tokenExpiresAt = 0
  /\ cachedResult = ZeroResult(variant) /\ setupScreenDrawn = FALSE
  /\ sleepRequested = FALSE /\ usbDisconnectCount = 0
  /\ wakeup_reason = "UNDEFINED"
  /\ wakeSources = {} /\ sleepDurationS = 0 /\ pmuIrqArmed = FALSE
  /\ sleepDurationWraps = 0
  /\ timeinfo \in LocalTimes(0 .. MinutesPerDay - 1) /\ sleepMinutes = 0
  /\ screen = "blank"
  /\ pc = "schedule" /\ gtsCaller = "none"
  /\ consecFalse = 0 /\ consecUnrec = 1 /\ sinceCounterReset = 1
  /\ decision = NoDecision /\ bootLog = FreshBootLog /\ safeRenders = 0
  /\ sync = NoSync /\ serial = NoSerial /\ acts = NoActs
  /\ lastStep = "Reset"

ComputeNextWake ==
  /\ pc = "schedule"
  /\ sleepMinutes' = calculateNextWakeMinutes(timeinfo.ok, timeinfo.minutes)
  /\ sleepDurationS' = weatherSleepDuration(isConfigured, sleepMinutes')
  /\ sleepDurationWraps' = uint64Wraps(sleepDurationS')
  /\ pc' = "scheduled"
  /\ lastStep' = "Step"
  /\ UNCHANGED <<variant, nvs, cfg, rtc, sleepRequested, usbDisconnectCount,
                 wakeup_reason, wakeSources, pmuIrqArmed, timeinfo, screen,
                 gtsCaller, hist, sync, serial, acts>>

NextSchedule == ComputeNextWake

SpecSchedule == InitSchedule /\ [][NextSchedule]_vars

\* ------------------------------------------- the timer duration alone
\* go_to_deep_sleep() called at the end of setup() over the refresh hours that
\* SET_CONFIG can have stored ("refreshHours" is written with as<int>() and
\* read back unchecked).
StoredConfigurations ==
  [ssid : BOOLEAN, creds : BOOLEAN, hours : (0 - MaxNegativeHours) .. MaxRefreshHours]

InitInterval ==
  /\ variant \in Variants
  /\ nvs \in IF variant = "weather" THEN {EmptyConfig} ELSE StoredConfigurations
  /\ cfg \in IF variant = "weather"
               THEN {[EmptyConfig EXCEPT !.ssid = b] : b \in BOOLEAN}
               ELSE {nvs}
  /\ bootCount = 0 /\ wasManualWake = FALSE /\ lastFetchEpoch = 0
  /\ lastNtpSyncEpoch = 0 /\ rapidBootCount = 0
  /\ cachedAccessToken = 0 /\ tokenExpiresAt = 0
  /\ cachedResult = ZeroResult(variant) /\ setupScreenDrawn = FALSE
  /\ sleepRequested = FALSE /\ usbDisconnectCount = 0
  /\ wakeup_reason = "TIMER"
  /\ wakeSources = {} /\ sleepDurationS = 0 /\ pmuIrqArmed = FALSE
  /\ sleepDurationWraps = 0
  /\ timeinfo = NoTime /\ sleepMinutes = 0
  /\ screen = "blank"
  /\ pc = "gts" /\ gtsCaller = "setup"
  /\ consecFalse = 0 /\ consecUnrec = 0 /\ sinceCounterReset = 0
  /\ decision = NoDecision /\ bootLog = FreshBootLog /\ safeRenders = 0
  /\ sync = NoSync /\ serial = NoSerial /\ acts = NoActs
  /\ lastStep = "Step"

NextInterval == go_to_deep_sleep

SpecInterval == InitInterval /\ [][NextInterval]_vars

\* ------------------------------------------------- the update, step by step
\* updateWeatherAndDisplay() / updateStravaAndDisplay(forceFetch) one call at a
\* time: connectWiFi, initTime, the requests, the writes into the RTC cache,
\* the timestamp, the drawing.  sync records the course of the call; a reset
\* can fall between any two steps.

\* a cached reading some fields of which have been overwritten (weather, tide,
\* surf), or statistics zeroed and still being accumulated (activities)
PartlyWritten == 2

\* http code != 200, a JSON error or a response that is not an array
PageError == -1

\* a page with fewer than per_page records
ShortPage == 5

\* what a request for one page of activities can return: an error, or the
\* number of records in the page
PageOutcomes == {PageError, 0, ShortPage, PerPage}

\* order of the fetches in updateWeatherAndDisplay()
WeatherOrder == <<"weather", "tide", "surf">>

\* the frame of every step of the update
SyncFrame ==
  /\ lastStep' = "Step"
  /\ UNCHANGED <<variant, nvs, cfg, bootCount, wasManualWake, setupScreenDrawn,
                 usbDisconnectCount, wakeup_reason, hw, sched, gtsCaller,
                 consecFalse, consecUnrec, decision, bootLog, safeRenders,
                 serial, acts>>

InitSync ==
  /\ variant \in Variants
  /\ cfg \in IF variant = "weather"
               THEN {[EmptyConfig EXCEPT !.ssid = b] : b \in BOOLEAN}
               ELSE {[ssid |-> TRUE, creds |-> TRUE, hours |-> DefaultRefreshHours]}
  /\ nvs = IF variant = "weather" THEN EmptyConfig ELSE cfg
  /\ bootCount = 1 /\ wasManualWake = FALSE
  /\ lastFetchEpoch \in {0, 1}
  /\ lastNtpSyncEpoch \in {0, 1}
  /\ rapidBootCount = 1
  /\ \E tok \in (IF variant = "weather" THEN {<<0, 0>>} ELSE {<<0, 0>>, <<1, 1>>}) :
       cachedAccessToken = tok[1] /\ tokenExpiresAt = tok[2]
  /\ cachedResult \in {[s \in Sources(variant) |-> v] : v \in {0, 1}}
  /\ setupScreenDrawn = FALSE
  /\ sleepRequested = FALSE /\ usbDisconnectCount = 0
  /\ wakeup_reason = "TIMER"
  /\ wakeSources = {} /\ sleepDurationS = 0 /\ pmuIrqArmed = FALSE
  /\ sleepDurationWraps = 0
  /\ timeinfo = NoTime /\ sleepMinutes = 0
  /\ screen = "blank"
  /\ pc = "sync" /\ gtsCaller = "none"
  /\ consecFalse = 0 /\ consecUnrec = 0 /\ sinceCounterReset = 1
  /\ decision = NoDecision /\ bootLog = FreshBootLog /\ safeRenders = 0
  /\ \E force \in (IF variant = "weather" THEN {TRUE} ELSE BOOLEAN) :
       sync = [NoSync EXCEPT !.force = force, !.before = cachedResult,
                             !.beforeEpoch = lastFetchEpoch,
                             !.beforeToken = <<cachedAccessToken, tokenExpiresAt>>]
  /\ serial = NoSerial /\ acts = NoActs
  /\ lastStep = "Step"

\* an update that goes on without the network
connectedAnyway(wifi) == "sync_time"

\* "if (WiFi.status() == WL_CONNECTED) ... else": where the update goes after
\* connectWiFi()
afterConnectWiFi(wifi) == IF wifi THEN "sync_time" ELSE "sync_draw"

\* "lastUpdateTime = lastUpdateTime + \" (stale)\"": only the weather variant
\* has a stale mark, and only its WiFi-failure branch sets it
staleAfterConnect(v, wifi) == v = "weather" /\ ~wifi

\* connectWiFi() and the test of WiFi.status() that follows it; in the
\* activity variant the decision to fetch comes first
SyncConnectWiFi ==
  /\ pc = "sync"
  /\ \E fetch \in (IF variant = "weather"
                     THEN {TRUE}
                     ELSE {sync.force \/ shouldFetchStrava(clock, due) :
                             clock \in BOOLEAN, due \in BOOLEAN}),
        wifi \in {FALSE, cfg.ssid},
        goSleep \in MidConnectGoSleep(cfg) :
       /\ sleepRequested' = (sleepRequested \/ goSleep)
       /\ sync' = [sync EXCEPT !.fetch = fetch, !.wifi = wifi,
                               !.stale = staleAfterConnect(variant, wifi),
                               !.phases = Append(@, "connect")]
       /\ pc' = afterConnectWiFi(wifi)
  /\ SyncFrame
  /\ UNCHANGED <<lastFetchEpoch, lastNtpSyncEpoch, rapidBootCount, cachedAccessToken,
                 tokenExpiresAt, cachedResult, screen, sinceCounterReset>>

\* "(now - lastNtpSyncEpoch) < 43200"
NtpSkipSeconds == 43200

\* what time(&now) can read at the start of initTime(): the two sides of the
\* 12 h boundary for a last synchronisation at epoch 1
ClockSamples == {NtpSkipSeconds, NtpSkipSeconds + 1}

\* what time(&lastNtpSyncEpoch) stores after a synchronisation
SyncedEpochs == {NtpSkipSeconds + 2}

\* a skip test that still skips at exactly 12 hours
ntpSkippedInclusive(last, now) == last > 0 /\ (now - last) <= NtpSkipSeconds

\* initTime(): "if (lastNtpSyncEpoch > 0 && (now - lastNtpSyncEpoch) < 43200)
\* return"
ntpSkipped(last, now) == last > 0 /\ (now - last) < NtpSkipSeconds

\* initTime() at clock reading now: what it did and the epoch it leaves; ok
\* tells whether getLocalTime() succeeded within the attempts, synced is the
\* clock after the synchronisation
initTimeAt(last, now, ok, synced) ==
  IF ntpSkipped(last, now) THEN <<"skipped", last>>
  ELSE IF ok THEN <<"synced", synced>>
  ELSE <<"failed", last>>

\* initTime(), and whether getLocalTime() works from here on
SyncInitTime ==
  /\ pc = "sync_time"
  /\ \E now \in ClockSamples, ok \in BOOLEAN, synced \in SyncedEpochs,
        avail \in BOOLEAN :
       LET done == initTimeAt(lastNtpSyncEpoch, now, ok, synced) IN
       /\ done[1] = "synced" => avail
       /\ lastNtpSyncEpoch' = done[2]
       /\ sync' = [sync EXCEPT !.clock = avail, !.now = now, !.ntp = done[1],
                               !.phases = Append(@, "clock")]
  /\ pc' = IF variant = "weather" THEN "fetch"
           ELSE IF sync.fetch THEN "sync_token" ELSE "sync_draw"
  /\ SyncFrame
  /\ UNCHANGED <<lastFetchEpoch, rapidBootCount, cachedAccessToken, tokenExpiresAt,
                 cachedResult, sleepRequested, screen, sinceCounterReset>>

\* fetches that stop at the first source that fails
afterSourceAbortOnFailure(idx, ok) ==
  IF ok /\ idx < Len(WeatherOrder) THEN <<"fetch", idx + 1>> ELSE <<"sync_stamp", idx>>

\* "bool weatherOk = fetchWeatherData(); bool tideOk = fetchTideData(); bool
\* surfOk = fetchSurfData();": the next fetch follows whatever the result
afterSource(idx, ok) ==
  IF idx < Len(WeatherOrder) THEN <<"fetch", idx + 1>> ELSE <<"sync_stamp", idx>>

\* fetchWeatherData() / fetchTideData() / fetchSurfData() up to the first
\* write into the cache: fetchTideData() returns before its request when
\* getLocalTime() fails; a request that fails writes nothing
fetchSourceData ==
  /\ pc = "fetch"
  /\ LET src == WeatherOrder[sync.idx]
         called == [sync EXCEPT !.calls = Append(@, src),
                                !.phases = IF sync.idx = 1
                                             THEN Append(@, "fetch") ELSE @]
     IN
     IF src = "tide" /\ ~sync.clock
       THEN /\ sync' = [called EXCEPT !.idx = afterSource(sync.idx, FALSE)[2]]
            /\ pc' = afterSource(sync.idx, FALSE)[1]
            /\ UNCHANGED cachedResult
       ELSE \E ok \in BOOLEAN :
              LET asked == [called EXCEPT !.requests = Append(@, src)] IN
              IF ok
                THEN /\ cachedResult' = [cachedResult EXCEPT ![src] = PartlyWritten]
                     /\ sync' = asked
                     /\ pc' = "store"
                ELSE /\ sync' = [asked EXCEPT !.idx = afterSource(sync.idx, FALSE)[2]]
                     /\ pc' = afterSource(sync.idx, FALSE)[1]
                     /\ UNCHANGED cachedResult
  /\ SyncFrame
  /\ UNCHANGED <<lastFetchEpoch, lastNtpSyncEpoch, rapidBootCount, cachedAccessToken,
                 tokenExpiresAt, sleepRequested, screen, sinceCounterReset>>

\* the rest of the writes of a fetch that succeeded, and its "return true"
storeSourceData ==
  /\ pc = "store"
  /\ LET src == WeatherOrder[sync.idx] IN
     /\ cachedResult' = [cachedResult EXCEPT ![src] = 1]
     /\ sync' = [sync EXCEPT !.ok = @ \cup {src},
                             !.idx = afterSource(sync.idx, TRUE)[2]]
     /\ pc' = afterSource(sync.idx, TRUE)[1]
  /\ SyncFrame
  /\ UNCHANGED <<lastFetchEpoch, lastNtpSyncEpoch, rapidBootCount, cachedAccessToken,
                 tokenExpiresAt, sleepRequested, screen, sinceCounterReset>>

\* "Update timestamp": lastWeatherFetchEpoch and cachedUpdateTime follow the
\* clock, whatever the fetches returned
updateTimestamp ==
  /\ pc = "sync_stamp"
  /\ lastFetchEpoch' = IF sync.clock THEN 1 ELSE lastFetchEpoch
  /\ pc' = "sync_draw"
  /\ SyncFrame
  /\ UNCHANGED <<lastNtpSyncEpoch, rapidBootCount, cachedAccessToken, tokenExpiresAt,
                 cachedResult, sleepRequested, screen, sinceCounterReset, sync, serial, acts>>

\* a pipeline that fetches without a token
afterTokenFetchAnyway(hasToken) == "fetch_reset"

\* "if (!refreshAccessToken()) { ... return false; }"
afterToken(hasToken) == IF hasToken THEN "fetch_reset" ELSE "sync_draw"

\* refreshAccessToken() as step 3 of fetchStravaDataWithValidation()
syncRefreshAccessToken ==
  /\ pc = "sync_token"
  /\ \E left \in ExpiryMargins, exchangeOk \in BOOLEAN :
       LET cached == tokenStillValid(cachedAccessToken, tokenExpiresAt, left)
           tried == cfg.creds /\ ~cached
           exchanged == tried /\ exchangeOk
           hasToken == cfg.creds /\ (cached \/ exchanged)
       IN
       /\ cachedAccessToken' = IF exchanged THEN 1 ELSE cachedAccessToken
       /\ tokenExpiresAt' = IF exchanged THEN 1 ELSE tokenExpiresAt
       /\ sync' = [sync EXCEPT
                     !.hadToken = cachedAccessToken # 0 /\ tokenExpiresAt > 0,
                     !.left = left,
                     !.reused = cfg.creds /\ cached,
                     !.tokenFailed = ~hasToken,
                     !.requests = IF tried THEN Append(@, "token") ELSE @,
                     !.phases = Append(@, "credential")]
       /\ pc' = afterToken(hasToken)
  /\ SyncFrame
  /\ UNCHANGED <<lastFetchEpoch, lastNtpSyncEpoch, rapidBootCount, cachedResult,
                 sleepRequested, screen, sinceCounterReset>>

\* fetchStravaData(): "Reset stats"
fetchStravaDataReset ==
  /\ pc = "fetch_reset"
  /\ cachedResult' = ZeroResult(variant)
  /\ sync' = [sync EXCEPT !.calls = Append(@, "activities"),
                          !.phases = Append(@, "fetch")]
  /\ pc' = "fetch_page"
  /\ SyncFrame
  /\ UNCHANGED <<lastFetchEpoch, lastNtpSyncEpoch, rapidBootCount, cachedAccessToken,
                 tokenExpiresAt, sleepRequested, screen, sinceCounterReset>>

\* a loop that also stops at a page shorter than per_page
loopEndsAtShortPage(size, page) ==
  size = PageError \/ size < PerPage \/ page + 1 > MaxPages

\* the three exits of "while (true)": an error, "arr.size() == 0", and
\* "page++; if (page > 10) break"
loopEnds(size, page) ==
  size = PageError \/ size = 0 \/ page + 1 > MaxPages

\* fetchStravaData(): one turn of "while (true)": the request for page
\* `page`, and the accumulation of its records
fetchStravaDataPage ==
  /\ pc = "fetch_page"
  /\ \E size \in PageOutcomes :
     \E matched \in (IF size > 0 THEN BOOLEAN ELSE {FALSE}) :
       /\ sync' = [sync EXCEPT
                     !.requests = Append(@, "activities"),
                     !.lastPage = size,
                     !.totalActivities = IF size > 0 THEN @ + size ELSE @,
                     !.page = IF size > 0 THEN @ + 1 ELSE @]
       /\ cachedResult' = IF matched
                            THEN [cachedResult EXCEPT !["activities"] = PartlyWritten]
                            ELSE cachedResult
       /\ pc' = IF loopEnds(size, sync.page) THEN "fetch_stamp" ELSE "fetch_page"
  /\ SyncFrame
  /\ UNCHANGED <<lastFetchEpoch, lastNtpSyncEpoch, rapidBootCount, cachedAccessToken,
                 tokenExpiresAt, sleepRequested, screen, sinceCounterReset>>

\* fetchStravaData() after the loop: the statistics accumulated so far are the
\* result, and "Update timestamp" follows the clock
fetchStravaDataStamp ==
  /\ pc = "fetch_stamp"
  /\ cachedResult' = [cachedResult EXCEPT
                        !["activities"] = IF @ = PartlyWritten THEN 1 ELSE @]
  /\ lastFetchEpoch' = IF sync.clock THEN 1 ELSE lastFetchEpoch
  /\ sync' = [sync EXCEPT
                !.ok = IF sync.lastPage = PageError /\ sync.page = 1
                         THEN @ ELSE @ \cup {"activities"}]
  /\ pc' = "sync_draw"
  /\ SyncFrame
  /\ UNCHANGED <<lastNtpSyncEpoch, rapidBootCount, cachedAccessToken, tokenExpiresAt,
                 sleepRequested, screen, sinceCounterReset>>

\* drawWeatherDashboard() / drawDashboard(), then resetCrashCounter()
drawDashboard ==
  /\ pc = "sync_draw"
  /\ screen' = "dashboard"
  /\ rapidBootCount' = resetCrashCounter
  /\ sinceCounterReset' = 0
  /\ sync' = [sync EXCEPT !.drawn = TRUE]
  /\ pc' = "sync_done"
  /\ SyncFrame
  /\ UNCHANGED <<lastFetchEpoch, lastNtpSyncEpoch, cachedAccessToken, tokenExpiresAt,
                 cachedResult, sleepRequested>>

NextSync ==
  \/ SyncConnectWiFi
  \/ SyncInitTime
  \/ fetchSourceData
  \/ storeSourceData
  \/ updateTimestamp
  \/ syncRefreshAccessToken
  \/ fetchStravaDataReset
  \/ fetchStravaDataPage
  \/ fetchStravaDataStamp
  \/ drawDashboard
  \/ HardReset

SpecSync == InitSync /\ [][NextSync]_vars

\* ------------------------------------- commands met during the association
\* connectWiFi() calls handleSerialCommands() at every turn of its wait, so a
\* line that arrives while an update started by setup() waits for the
\* association is dispatched by processSerialCommand() before the update goes
\* on.  sync.nested tells that such a line ran a whole update of its own.

\* REFRESH (weather variant) during the wait: updateWeatherAndDisplay() runs
\* from connectWiFi() to the drawing inside the waiting update
MidConnectRefresh ==
  /\ pc = "sync"
  /\ variant = "weather" /\ cfg.ssid /\ ~sync.nested
  /\ UpdateAndDisplay(cfg, TRUE, FALSE)
  /\ sync' = [sync EXCEPT !.nested = TRUE]
  /\ lastStep' = "Step"
  /\ UNCHANGED <<variant, nvs, cfg, bootCount, wasManualWake, setupScreenDrawn,
                 sleepRequested, usbDisconnectCount, wakeup_reason, hw, sched,
                 pc, gtsCaller, consecFalse, consecUnrec, decision, safeRenders,
                 serial, acts>>

\* WIPE_CONFIG, DELETE_DATA or SET_CONFIG (activity variant) during the wait
MidConnectConfigure ==
  /\ pc = "sync"
  /\ variant = "strava" /\ cfg.ssid
  /\ \/ /\ wipeConfig
        /\ \E showSetup \in BOOLEAN :
             screen' = IF showSetup THEN "setup" ELSE screen
     \/ /\ \E doc \in ConfigPayloads :
             saveConfigFromSerial(doc.ssid, doc.creds, doc.hours)
        /\ UNCHANGED <<cachedResult, lastFetchEpoch, lastNtpSyncEpoch, screen>>
  /\ lastStep' = "Step"
  /\ UNCHANGED <<variant, bootCount, wasManualWake, rapidBootCount,
                 setupScreenDrawn, sleepRequested, usbDisconnectCount,
                 wakeup_reason, hw, sched, pc, gtsCaller, hist, sync, serial,
                 acts>>

NextNested ==
  \/ NextSync
  \/ MidConnectRefresh
  \/ MidConnectConfigure

SpecNested == InitSync /\ [][NextNested]_vars

\* ------------------------------------------------ the command channel alone
\* processSerialCommand() line by line, on a device that idles in loop() with
\* a host attached.  One action per command line; the reply is recorded as the
\* machine-readable lines printed for it, in order.

\* keys of the Preferences namespace "config"
StringKeys == {"ssid", "password", "name", "sport", "clientID", "clientSecret",
               "refreshToken", "title"}
IntKeys == {"refreshHours", "trackPeriod"}
FloatKeys == {"goal"}
Keys == StringKeys \cup IntKeys \cup FloatKeys
CredentialKeys == {"clientID", "clientSecret", "refreshToken"}

\* A JSON string is a string; a JSON number is <<whole part, tenths>>, with
\* tenths 0 or 5 and a whole part that is not negative.
\* significand bits of the float that holds "goal"
FloatMantissaBits == 24

\* as<int>() on a JSON number: the fraction is dropped
asInt(x) == x[1]

\* as<float>() on a JSON number below 2^25: single precision keeps halves
\* below 2^23, whole numbers below 2^24 and even numbers above, and rounds
\* the rest to the nearest, ties to the even significand
asFloat(x) ==
  IF x[1] < 2 ^ (FloatMantissaBits - 1) THEN x
  ELSE IF x[1] < 2 ^ FloatMantissaBits
    THEN <<x[1] + (IF x[2] = 5 /\ x[1] % 2 = 1 THEN 1 ELSE 0), 0>>
  ELSE <<IF x[1] % 2 = 0 THEN x[1]
         ELSE IF (x[1] + 1) % 4 = 0 THEN x[1] + 1 ELSE x[1] - 1, 0>>

\* the values of <<"goal", "refreshHours">> the host writes
HostNumbers == {<<<<1000, 0>>, <<1, 0>>>>, <<<<1500, 5>>, <<12, 5>>>>,
                <<<<2 ^ FloatMantissaBits + 1, 0>>, <<24, 0>>>>}

\* SET_CONFIG documents: full ones, and ones that carry a single key
FullDocs ==
  {[ssid |-> s, password |-> "pw", name |-> "n", sport |-> "Ride", goal |-> n[1],
    clientID |-> c, clientSecret |-> "secret", refreshToken |-> "rt",
    refreshHours |-> n[2], trackPeriod |-> <<1, 0>>, title |-> "t"] :
     s \in {"net"}, c \in {"id"}, n \in HostNumbers}
PartialDocs == {[ssid |-> "net2"], [clientID |-> ""]}
SerialPayloads == FullDocs \cup PartialDocs

\* the second argument of getString / getFloat / getInt in sendCurrentConfig()
PrefDefaults ==
  [ssid |-> "", password |-> "", name |-> "", sport |-> "Run", goal |-> <<1000, 0>>,
   clientID |-> "", clientSecret |-> "", refreshToken |-> "",
   refreshHours |-> DefaultRefreshHours, trackPeriod |-> 0, title |-> ""]

\* preferences.clear()
NoPrefs == [k \in {} |-> ""]

\* what putString / putFloat / putInt store for a key of the document
storedValue(k, v) ==
  IF k \in IntKeys THEN asInt(v) ELSE IF k \in FloatKeys THEN asFloat(v) ELSE v

\* the namespace after the "if (doc.containsKey(...)) preferences.put..." lines
storedPrefs(prefs, doc) ==
  [k \in DOMAIN prefs \cup DOMAIN doc |->
     IF k \in DOMAIN doc THEN storedValue(k, doc[k]) ELSE prefs[k]]

\* a read that ignores what is stored
defaultPref(prefs, k) == PrefDefaults[k]

\* preferences.get...(key, default)
getPref(prefs, k) == IF k \in DOMAIN prefs THEN prefs[k] ELSE PrefDefaults[k]

\* sendCurrentConfig(): the JSON document printed before "OK"
sendCurrentConfig(prefs) ==
  [k \in Keys \cup {"configured", "hasStrava"} |->
     IF k = "configured" THEN getPref(prefs, "ssid") # ""
     ELSE IF k = "hasStrava" THEN getPref(prefs, "clientID") # ""
     ELSE IF k \in IntKeys THEN <<getPref(prefs, k), 0>>
     ELSE getPref(prefs, k)]

\* the arguments of saveConfigFromSerial for a document: what it means for
\* the SSID, for the three credentials taken together, and for refreshHours
ssidOf(doc) == IF "ssid" \in DOMAIN doc THEN <<doc["ssid"] # "">> ELSE <<>>
credsOf(doc, prefs) ==
  IF DOMAIN doc \cap CredentialKeys = {} THEN <<>>
  ELSE <<\A k \in CredentialKeys : getPref(storedPrefs(prefs, doc), k) # "">>
hoursOf(doc) ==
  IF "refreshHours" \in DOMAIN doc THEN <<asInt(doc["refreshHours"])>> ELSE <<>>

InitSerial ==
  /\ variant \in Variants
  /\ nvs = EmptyConfig
  /\ cfg \in IF variant = "weather"
               THEN {[EmptyConfig EXCEPT !.ssid = b] : b \in BOOLEAN}
               ELSE {EmptyConfig}
  /\ bootCount = 1 /\ wasManualWake = FALSE /\ lastFetchEpoch = 0
  /\ lastNtpSyncEpoch = 0
  /\ rapidBootCount = (IF FullyConfiguredIn(cfg) THEN 0 ELSE 1)
  /\ cachedAccessToken = 0 /\ tokenExpiresAt = 0
  /\ cachedResult = ZeroResult(variant)
  /\ setupScreenDrawn = ~FullyConfiguredIn(cfg)
  /\ sleepRequested = FALSE /\ usbDisconnectCount = 0
  /\ wakeup_reason = "UNDEFINED"
  /\ wakeSources = {} /\ sleepDurationS = 0 /\ pmuIrqArmed = FALSE
  /\ sleepDurationWraps = 0
  /\ timeinfo = NoTime /\ sleepMinutes = 0
  /\ screen = (IF FullyConfiguredIn(cfg) THEN "dashboard" ELSE "setup")
  /\ pc = "loop_cmd" /\ gtsCaller = "none"
  /\ consecFalse = 0 /\ consecUnrec = 1
  /\ sinceCounterReset = (IF FullyConfiguredIn(cfg) THEN 0 ELSE 1)
  /\ decision = NoDecision
  /\ bootLog = [FreshBootLog EXCEPT !.firstRun = ~FullyConfiguredIn(cfg),
                                    !.render = FullyConfiguredIn(cfg)]
  /\ safeRenders = 0
  /\ sync = NoSync /\ acts = NoActs
  /\ serial = [NoSerial EXCEPT !.prefs = NoPrefs]
  /\ lastStep = "Step"

\* what no command line touches
LineFrame ==
  /\ lastStep' = "Step"
  /\ UNCHANGED <<variant, bootCount, wasManualWake, setupScreenDrawn,
                 usbDisconnectCount, wakeup_reason, hw, sched, pc, gtsCaller,
                 consecFalse, consecUnrec, decision, safeRenders, sync, acts>>

\* the line handled and the machine-readable lines printed for it; no JSON
\* document unless the command prints one
replied(line, tokens) ==
  [serial EXCEPT !.line = line, !.reply = tokens, !.sent = <<>>]

\* a command that only prints
LineReadOnly(line, tokens) ==
  /\ serial' = replied(line, tokens)
  /\ LineFrame
  /\ UNCHANGED <<nvs, cfg, lastFetchEpoch, lastNtpSyncEpoch, rapidBootCount,
                 cachedAccessToken, tokenExpiresAt, cachedResult, sleepRequested,
                 screen, sinceCounterReset, bootLog>>

\* PING: "PONG" and the identity line
LinePing ==
  /\ pc = "loop_cmd"
  /\ LineReadOnly("PING", <<"PONG">>)

\* STATUS (weather variant): the cached readings, then "OK"
LineStatus ==
  /\ pc = "loop_cmd"
  /\ variant = "weather"
  /\ LineReadOnly("STATUS", <<"OK">>)

\* a line that matches no command: "Unknown command: ...", "ERROR"
LineUnknown ==
  /\ pc = "loop_cmd"
  /\ LineReadOnly("HELLO", <<"ERROR">>)

\* a line of blanks: trim() leaves it empty and the last "else if
\* (command.length() > 0)" prints nothing
LineBlank ==
  /\ pc = "loop_cmd"
  /\ LineReadOnly(" ", <<>>)

\* GET_CONFIG (activity variant): sendCurrentConfig()
LineGetConfig ==
  /\ pc = "loop_cmd"
  /\ variant = "strava"
  /\ serial' = [replied("GET_CONFIG", <<"OK">>) EXCEPT
                  !.sent = sendCurrentConfig(serial.prefs)]
  /\ LineFrame
  /\ UNCHANGED <<nvs, cfg, lastFetchEpoch, lastNtpSyncEpoch, rapidBootCount,
                 cachedAccessToken, tokenExpiresAt, cachedResult, sleepRequested,
                 screen, sinceCounterReset, bootLog>>

\* SET_CONFIG:<json> (activity variant): saveConfigFromSerial(); a document
\* that does not parse is answered "ERROR" and nothing is written
LineSetConfig ==
  /\ pc = "loop_cmd"
  /\ variant = "strava"
  /\ \/ \E doc \in SerialPayloads :
          /\ saveConfigFromSerial(ssidOf(doc), credsOf(doc, serial.prefs), hoursOf(doc))
          /\ serial' = [replied("SET_CONFIG", <<"SUCCESS">>) EXCEPT
                          !.prefs = storedPrefs(serial.prefs, doc),
                          !.written = IF doc \in FullDocs THEN doc ELSE <<>>]
     \/ /\ serial' = replied("SET_CONFIG", <<"ERROR">>)
        /\ UNCHANGED <<nvs, cfg, cachedAccessToken, tokenExpiresAt>>
  /\ LineFrame
  /\ UNCHANGED <<lastFetchEpoch, lastNtpSyncEpoch, rapidBootCount, cachedResult,
                 sleepRequested, screen, sinceCounterReset, bootLog>>

\* WIPE_CONFIG (activity variant): wipeConfig()
LineWipeConfig ==
  /\ pc = "loop_cmd"
  /\ variant = "strava"
  /\ wipeConfig
  /\ serial' = [replied("WIPE_CONFIG", <<"WIPED">>) EXCEPT !.prefs = NoPrefs, !.written = <<>>]
  /\ LineFrame
  /\ UNCHANGED <<rapidBootCount, sleepRequested, screen, sinceCounterReset, bootLog>>

\* DELETE_DATA (activity variant): wipeConfigAndShowSetup(), which prints the
\* "WIPED" of wipeConfig() and then its own "SETUP_SCREEN_DRAWN"
LineDeleteData ==
  /\ pc = "loop_cmd"
  /\ variant = "strava"
  /\ wipeConfig
  /\ screen' = "setup"
  /\ serial' = [replied("DELETE_DATA", <<"WIPED", "SETUP_SCREEN_DRAWN">>) EXCEPT
                  !.prefs = NoPrefs, !.written = <<>>]
  /\ LineFrame
  /\ UNCHANGED <<rapidBootCount, sleepRequested, sinceCounterReset, bootLog>>

\* SHOW_SETUP_SCREEN (activity variant)
LineShowSetupScreen ==
  /\ pc = "loop_cmd"
  /\ variant = "strava"
  /\ screen' = "setup"
  /\ serial' = replied("SHOW_SETUP_SCREEN", <<"SETUP_SCREEN_DRAWN">>)
  /\ LineFrame
  /\ UNCHANGED <<nvs, cfg, lastFetchEpoch, lastNtpSyncEpoch, rapidBootCount,
                 cachedAccessToken, tokenExpiresAt, cachedResult, sleepRequested,
                 sinceCounterReset, bootLog>>

\* TEST_WIFI (activity variant): loadConfiguration(), testWiFiConnection()
LineTestWifi ==
  /\ pc = "loop_cmd"
  /\ variant = "strava"
  /\ cfg' = loadConfiguration
  /\ \E connected \in BOOLEAN :
       serial' = replied("TEST_WIFI",
                         IF ~cfg'.ssid THEN <<"NO_WIFI_CREDENTIALS">>
                         ELSE IF connected THEN <<"WIFI_OK">> ELSE <<"WIFI_FAILED">>)
  /\ LineFrame
  /\ UNCHANGED <<nvs, lastFetchEpoch, lastNtpSyncEpoch, rapidBootCount,
                 cachedAccessToken, tokenExpiresAt, cachedResult, sleepRequested,
                 screen, sinceCounterReset, bootLog>>

\* the status lines of FETCH_STRAVA for each way the pipeline can end
fetchStravaReply(res) ==
  CASE res = "wifi_failed" -> <<"WIFI_CONNECT_FAILED">>
    [] res = "token_failed" -> <<"TOKEN_REFRESH_FAILED">>
    [] res = "fetched" -> <<"STRAVA_OK", "DASHBOARD_DRAWN">>

\* FETCH_STRAVA (activity variant)
LineFetchStrava ==
  /\ pc = "loop_cmd"
  /\ variant = "strava"
  /\ LET loaded == loadConfiguration IN
     /\ cfg' = loaded
     /\ IF ~(loaded.ssid /\ loaded.creds)
          THEN /\ SyncKeepsRetained
               /\ serial' = replied("FETCH_STRAVA",
                                    IF ~loaded.ssid THEN <<"NO_WIFI_CREDENTIALS">>
                                                    ELSE <<"NO_STRAVA_CREDENTIALS">>)
               /\ UNCHANGED <<screen, sleepRequested>>
          ELSE \E res \in StravaResults, vbusIn \in BOOLEAN :
                 /\ StravaPipeline(loaded, res)
                 /\ screen' = IF res = "fetched" THEN "dashboard" ELSE screen
                 /\ sleepRequested' = (sleepRequested \/ (res = "fetched" /\ ~vbusIn))
                 /\ serial' = replied("FETCH_STRAVA", fetchStravaReply(res))
  /\ LineFrame
  /\ UNCHANGED <<nvs, rapidBootCount, sinceCounterReset, bootLog>>

\* REFRESH (weather variant): updateWeatherAndDisplay(), "REFRESH_DONE"
LineRefresh ==
  /\ pc = "loop_cmd"
  /\ variant = "weather"
  /\ UpdateAndDisplay(cfg, TRUE, FALSE)
  /\ \E goSleep \in MidConnectGoSleep(cfg) :
       sleepRequested' = (sleepRequested \/ goSleep)
  /\ serial' = replied("REFRESH", <<"REFRESH_DONE">>)
  /\ LineFrame
  /\ UNCHANGED <<nvs, cfg>>

\* GO_SLEEP: "OK", "sleepRequested = true"
LineGoSleep ==
  /\ pc = "loop_cmd"
  /\ sleepRequested' = TRUE
  /\ serial' = replied("GO_SLEEP", <<"OK">>)
  /\ LineFrame
  /\ UNCHANGED <<nvs, cfg, lastFetchEpoch, lastNtpSyncEpoch, rapidBootCount,
                 cachedAccessToken, tokenExpiresAt, cachedResult,
                 screen, sinceCounterReset, bootLog>>

\* RESTART: "OK", ESP.restart()
LineRestart ==
  /\ pc = "loop_cmd"
  /\ BootAllowed("UNDEFINED")
  /\ StartBoot("UNDEFINED", FALSE)
  /\ serial' = replied("RESTART", <<"OK">>)
  /\ lastStep' = "Reset"
  /\ UNCHANGED <<variant, nvs, rtc, screen>>

NextSerial ==
  \/ LinePing
  \/ LineStatus
  \/ LineUnknown
  \/ LineBlank
  \/ LineGetConfig
  \/ LineSetConfig
  \/ LineWipeConfig
  \/ LineDeleteData
  \/ LineShowSetupScreen
  \/ LineTestWifi
  \/ LineFetchStrava
  \/ LineRefresh
  \/ LineGoSleep
  \/ LineRestart

SpecSerial == InitSerial /\ [][NextSerial]_vars

\* ======================================================== fetchStravaData()
\* The loop over the activity records of the response, "for (JsonObject act :
\* arr)", one record per step.  acts.page is the records in arrival order;
\* acts.kmDone and acts.timeHours hold the totals in metres and seconds (the
\* code divides each record by 1000.0 and 3600.0 before adding).  acts.last
\* tells, for each field of the last-activity detail, the position of the
\* record it was taken from, 0 for a field left empty by the reset.

\* "String SPORT_TYPE = \"Run\"": the tracked sport
SPORT_TYPE == "Run"

\* the records explored: another sport, the tracked sport in range with and
\* without a route, and the tracked sport with no distance, at the distance
\* limit, and at the duration limit
ActivityKinds ==
  {[type |-> "Ride", distance |-> 5000, moving_time |-> 1800, polyline |-> TRUE],
   [type |-> SPORT_TYPE, distance |-> 5000, moving_time |-> 1800, polyline |-> TRUE],
   [type |-> SPORT_TYPE, distance |-> 7000, moving_time |-> 2400, polyline |-> FALSE],
   [type |-> SPORT_TYPE, distance |-> 0, moving_time |-> 1800, polyline |-> TRUE],
   [type |-> SPORT_TYPE, distance |-> 1000 * 1000, moving_time |-> 1800,
    polyline |-> TRUE],
   [type |-> SPORT_TYPE, distance |-> 5000, moving_time |-> 100 * 3600,
    polyline |-> TRUE]}

\* the responses explored
ActivityPages ==
  UNION {[1 .. n -> ActivityKinds] : n \in 1 .. MaxActivities}

\* a test that accepts every record
reasonableAlways(metres, secs) == TRUE

\* "distance > 0 && distance < 1000 && time > 0 && time < 100" (km and hours),
\* and the same test on dkm and hrs for the detail; whole metres and seconds
reasonable(metres, secs) ==
  metres > 0 /\ metres < 1000 * 1000 /\ secs > 0 /\ secs < 100 * 3600

\* fetchStravaData() after "Reset stats", with a token and a response
InitActs ==
  /\ variant = "strava"
  /\ cfg = [ssid |-> TRUE, creds |-> TRUE, hours |-> DefaultRefreshHours]
  /\ nvs = cfg
  /\ bootCount = 1 /\ wasManualWake = FALSE /\ lastFetchEpoch = 0
  /\ lastNtpSyncEpoch = 0 /\ rapidBootCount = 1
  /\ cachedAccessToken = 1 /\ tokenExpiresAt = 1
  /\ cachedResult = ZeroResult(variant)
  /\ setupScreenDrawn = FALSE
  /\ sleepRequested = FALSE /\ usbDisconnectCount = 0
  /\ wakeup_reason = "TIMER"
  /\ wakeSources = {} /\ sleepDurationS = 0 /\ pmuIrqArmed = FALSE
  /\ sleepDurationWraps = 0
  /\ timeinfo = NoTime /\ sleepMinutes = 0
  /\ screen = "blank"
  /\ pc = "acts_scan" /\ gtsCaller = "none"
  /\ consecFalse = 0 /\ consecUnrec = 0 /\ sinceCounterReset = 1
  /\ decision = NoDecision /\ bootLog = FreshBootLog /\ safeRenders = 0
  /\ sync = NoSync /\ serial = NoSerial
  /\ \E page \in ActivityPages : acts = [NoActs EXCEPT !.page = page]
  /\ lastStep = "Step"

\* the body of "for (JsonObject act : arr)" for the record at acts.next
scanActivity ==
  /\ pc = "acts_scan"
  /\ LET i == acts.next
         act == acts.page[i]
         matches == act.type = SPORT_TYPE
         ok == reasonable(act.distance, act.moving_time)
         named == IF matches /\ ~acts.gotLast
                    THEN [acts.last EXCEPT !.title = i, !.date = i]
                    ELSE acts.last
         detail == IF matches /\ ~acts.gotLast /\ ok
                     THEN [named EXCEPT !.distance = i, !.moving = i,
                                        !.polyline = IF act.polyline THEN i ELSE @]
                     ELSE named
     IN
     /\ acts' = [acts EXCEPT
                   !.next = i + 1,
                   !.last = detail,
                   !.gotLast = @ \/ (matches /\ ok),
                   !.kmDone = IF matches /\ ok THEN @ + act.distance ELSE @,
                   !.timeHours = IF matches /\ ok THEN @ + act.moving_time ELSE @,
                   !.activitiesCount = IF matches /\ ok THEN @ + 1 ELSE @]
     /\ pc' = IF i = Len(acts.page) THEN "acts_done" ELSE "acts_scan"
  /\ lastStep' = "Step"
  /\ UNCHANGED <<variant, nvs, cfg, rtc, sleepRequested, usbDisconnectCount,
                 wakeup_reason, hw, sched, screen, gtsCaller, hist, sync, serial>>

NextActs == scanActivity

SpecActs == InitActs /\ [][NextActs]_vars

\* ====================================================== checkFactoryReset()
\* checkFactoryReset() alone, from every retained state: bootLog.heldMs is how
\* long the BOOT button stays low after the confirmation blinks, counted from
\* startTime; 0 stands for a button that is not pressed or is released during
\* the blinks.

\* "static const int FACTORY_RESET_HOLD_MS = 5000"
FACTORY_RESET_HOLD_MS == 5000

\* the hold times explored: none, one millisecond short, and the full hold
HoldSamples == {0, FACTORY_RESET_HOLD_MS - 1, FACTORY_RESET_HOLD_MS}

\* a gesture that triggers as soon as the button is seen low after the blinks
holdReachedAtOnce(heldMs) == heldMs > 0

\* "if (millis() - startTime >= FACTORY_RESET_HOLD_MS)" inside "while
\* (digitalRead(BOOT_BUTTON_PIN) == LOW)"
holdReached(heldMs) == heldMs >= FACTORY_RESET_HOLD_MS

InitReset ==
  /\ variant \in Variants
  /\ nvs \in IF variant = "weather"
               THEN {EmptyConfig}
               ELSE {EmptyConfig,
                     [ssid |-> TRUE, creds |-> TRUE, hours |-> DefaultRefreshHours]}
  /\ cfg \in IF variant = "weather"
               THEN {[EmptyConfig EXCEPT !.ssid = b] : b \in BOOLEAN}
               ELSE {nvs}
  /\ bootCount \in {0, 1} /\ wasManualWake \in BOOLEAN
  /\ lastFetchEpoch \in {0, 1} /\ lastNtpSyncEpoch \in {0, 1}
  /\ rapidBootCount \in {0, 1}
  /\ \E tok \in {<<0, 0>>, <<1, 1>>} :
       cachedAccessToken = tok[1] /\ tokenExpiresAt = tok[2]
  /\ cachedResult \in {[s \in Sources(variant) |-> v] : v \in {0, 1}}
  /\ setupScreenDrawn \in BOOLEAN
  /\ sleepRequested = FALSE /\ usbDisconnectCount = 0
  /\ wakeup_reason = "EXT1"
  /\ wakeSources = {} /\ sleepDurationS = 0 /\ pmuIrqArmed = FALSE
  /\ sleepDurationWraps = 0
  /\ timeinfo = NoTime /\ sleepMinutes = 0
  /\ screen = "blank"
  /\ pc = "boot" /\ gtsCaller = "none"
  /\ consecFalse = 0 /\ consecUnrec = 0 /\ sinceCounterReset = 0
  /\ decision = NoDecision /\ safeRenders = 0
  /\ \E heldMs \in HoldSamples : bootLog = [FreshBootLog EXCEPT !.heldMs = heldMs]
  /\ sync = NoSync /\ serial = NoSerial /\ acts = NoActs
  /\ lastStep = "Reset"

\* checkFactoryReset(): the erase and the restart when the hold time is
\* reached, "return false" otherwise
checkFactoryReset ==
  /\ pc = "boot"
  /\ IF holdReached(bootLog.heldMs)
       THEN FactoryReset
       ELSE /\ pc' = "setup_main"
            /\ lastStep' = "Step"
            /\ UNCHANGED <<variant, nvs, cfg, rtc, sleepRequested,
                           usbDisconnectCount, wakeup_reason, hw, sched, screen,
                           gtsCaller, hist, sync, serial, acts>>

NextReset == checkFactoryReset

SpecReset == InitReset /\ [][NextReset]_vars

\* ===================================================== the blocking waits
\* The update of a configured boot of the weather variant at the grain of its
\* polling loops: connectWiFi(), initTime(), the line reads of fetchSurfData()
\* and epd_wait_busy(), then the tail of setup().  sync.attempts is the loop
\* counter of the first two, sync.lineIdx that of the third, sync.busyMs the
\* time epd_wait_busy() has waited.  sync.stream is what the buoy server does
\* with the connection: it sends lines ("open"), closes it ("closed"), or
\* keeps it open and sends nothing ("stalled").

\* "attempts < 40" in connectWiFi()
WifiPolls == 40
\* "attempts < 10" in initTime()
NtpPolls == 10
\* "lineIdx < 3" in fetchSurfData()
BuoyLines == 3
\* "millis() - startTime > 60000" in epd_wait_busy()
DisplayTimeoutMs == 60000
\* the time between two looks at the busy line explored (1000 turns of 10 ms)
BusyStrideMs == 10000

InitLive ==
  /\ variant = "weather"
  /\ cfg = [EmptyConfig EXCEPT !.ssid = TRUE]
  /\ nvs = EmptyConfig
  /\ bootCount = 1 /\ wasManualWake = FALSE
  /\ lastFetchEpoch \in {0, 1} /\ lastNtpSyncEpoch = 0
  /\ rapidBootCount = 0
  /\ cachedAccessToken = 0 /\ tokenExpiresAt = 0
  /\ cachedResult \in {[s \in Sources(variant) |-> v] : v \in {0, 1}}
  /\ setupScreenDrawn = FALSE
  /\ sleepRequested = FALSE /\ usbDisconnectCount = 0
  /\ wakeup_reason = "TIMER"
  /\ wakeSources = {} /\ sleepDurationS = 0 /\ pmuIrqArmed = FALSE
  /\ sleepDurationWraps = 0
  /\ timeinfo = NoTime /\ sleepMinutes = 0
  /\ screen = "blank"
  /\ pc = "live_wifi" /\ gtsCaller = "none"
  /\ consecFalse = 0 /\ consecUnrec = 0 /\ sinceCounterReset = 0
  /\ decision = NoDecision /\ bootLog = FreshBootLog /\ safeRenders = 0
  /\ sync = NoSync /\ serial = NoSerial /\ acts = NoActs
  /\ lastStep = "Step"

\* what the polling loops leave alone
LiveFrame ==
  /\ lastStep' = "Step"
  /\ UNCHANGED <<variant, nvs, cfg, rtc, sleepRequested, usbDisconnectCount,
                 wakeup_reason, hw, sched, gtsCaller, hist, serial, acts>>

\* connectWiFi(): one test of "while (WiFi.status() != WL_CONNECTED &&
\* attempts < 40)" and the turn or the exit that follows
connectWiFiPoll ==
  /\ pc = "live_wifi"
  /\ \E connected \in BOOLEAN :
       IF ~connected /\ sync.attempts < WifiPolls
         THEN /\ sync' = [sync EXCEPT !.attempts = @ + 1]
              /\ pc' = "live_wifi"
         ELSE /\ sync' = [sync EXCEPT !.wifi = connected, !.attempts = 0]
              /\ pc' = IF connected THEN "live_ntp" ELSE "live_draw"
  /\ LiveFrame /\ UNCHANGED screen

\* initTime(): one test of "while (!getLocalTime(&timeinfo) && attempts <
\* 10)"; the fetches whose reads have a timeout of their own follow, up to the
\* GET of fetchSurfData()
initTimePoll ==
  /\ pc = "live_ntp"
  /\ \E got \in BOOLEAN :
       IF ~got /\ sync.attempts < NtpPolls
         THEN /\ sync' = [sync EXCEPT !.attempts = @ + 1]
              /\ pc' = "live_ntp"
         ELSE \E answer \in {"error", "open", "closed", "stalled"} :
                /\ sync' = [sync EXCEPT !.clock = got, !.stream = answer]
                /\ pc' = IF answer = "error" THEN "live_draw" ELSE "live_surf"
  /\ LiveFrame /\ UNCHANGED screen

\* fetchSurfData(): one turn of "while (lineIdx < 3 && stream->connected())":
\* a line is read when the stream has one; a turn that finds none changes
\* nothing but the watchdog
readBuoyLine ==
  /\ pc = "live_surf"
  /\ IF sync.lineIdx < BuoyLines /\ sync.stream # "closed"
       THEN \E available \in (IF sync.stream = "stalled" THEN {FALSE} ELSE BOOLEAN),
               closes \in (IF sync.stream = "stalled" THEN {FALSE} ELSE BOOLEAN) :
              /\ sync' = [sync EXCEPT
                            !.lineIdx = IF available THEN @ + 1 ELSE @,
                            !.stream = IF closes THEN "closed" ELSE @]
              /\ pc' = "live_surf"
       ELSE /\ sync' = sync
            /\ pc' = "live_draw"
  /\ LiveFrame /\ UNCHANGED screen

\* epd_wait_busy() after the dashboard was sent to the panel: one look at the
\* busy line every BusyStrideMs, "Display timeout!" after 60000 ms; then
\* updateWeatherAndDisplay() returns into setup()
epd_wait_busy ==
  /\ pc = "live_draw"
  /\ \E busy \in BOOLEAN :
       IF busy /\ sync.busyMs <= DisplayTimeoutMs
         THEN /\ sync' = [sync EXCEPT !.busyMs = @ + BusyStrideMs]
              /\ pc' = "live_draw"
              /\ UNCHANGED screen
         ELSE /\ sync' = [sync EXCEPT !.drawn = TRUE]
              /\ screen' = "dashboard"
              /\ pc' = "setup_tail"
  /\ LiveFrame

NextLive ==
  \/ connectWiFiPoll
  \/ initTimePoll
  \/ readBuoyLine
  \/ epd_wait_busy
  \/ SetupTail
  \/ go_to_deep_sleep

\* the program runs: whatever it can do next, it does
SpecLive == InitLive /\ [][NextLive]_vars /\ WF_vars(NextLive)

\* =================================================== handleSerialCommands()
\* The line buffer, one received character per step.  serial.buffer is
\* serialInputBuffer.length(); serial.did tells what the step did with the
\* character: "appended", "dropped", "dispatched" (processSerialCommand()
\* called with the buffer, then the buffer emptied) or "skipped" (a
\* terminator that found the buffer empty).

\* "if (serialInputBuffer.length() < 2048)"
SerialBufferLimit == 2048

\* a buffer that takes every character
appendAlways(length) == length + 1

\* "if (serialInputBuffer.length() < 2048) serialInputBuffer += c"
appendChar(length) == IF length < SerialBufferLimit THEN length + 1 ELSE length

\* one turn of "while (USBSerial.available())"
readSerialChar ==
  /\ pc = "loop_cmd"
  /\ \E c \in {"\n", "\r", "x"} :
       IF c \in {"\n", "\r"}
         THEN serial' = [serial EXCEPT
                           !.did = IF serial.buffer > 0 THEN "dispatched"
                                                        ELSE "skipped",
                           !.buffer = 0]
         ELSE serial' = [serial EXCEPT
                           !.did = IF appendChar(serial.buffer) = serial.buffer
                                     THEN "dropped" ELSE "appended",
                           !.buffer = appendChar(serial.buffer)]
  /\ lastStep' = "Step"
  /\ UNCHANGED <<variant, nvs, cfg, rtc, sleepRequested, usbDisconnectCount,
                 wakeup_reason, hw, sched, screen, pc, gtsCaller, hist, sync,
                 acts>>

NextLine == readSerialChar

SpecLine == InitSerial /\ [][NextLine]_vars

\* ------------------------------------- go_to_deep_sleep(), statement by statement
\* The presence check at the top of go_to_deep_sleep() and the power-off at its
\* end, with the environment free to connect external power in between.  The
\* PMU latches a VBUS insertion as a pending interrupt and holds its IRQ line
\* low until the status is cleared; ext0 wakes the chip while the line is low.
InitWindow ==
  /\ variant \in Variants
  /\ nvs \in IF variant = "weather"
               THEN {EmptyConfig}
               ELSE {[ssid |-> b, creds |-> b, hours |-> h] :
                       b \in BOOLEAN, h \in {1, DefaultRefreshHours}}
  /\ cfg \in IF variant = "weather"
               THEN {[EmptyConfig EXCEPT !.ssid = b] : b \in BOOLEAN}
               ELSE {nvs}
  /\ bootCount = 0 /\ wasManualWake = FALSE /\ lastFetchEpoch = 0
  /\ lastNtpSyncEpoch = 0 /\ rapidBootCount = 0
  /\ cachedAccessToken = 0 /\ tokenExpiresAt = 0
  /\ cachedResult = ZeroResult(variant) /\ setupScreenDrawn = FALSE
  /\ sleepRequested \in BOOLEAN /\ usbDisconnectCount = 0
  /\ wakeup_reason \in {"TIMER", "EXT1"}
  /\ wakeSources = {} /\ sleepDurationS = 0 /\ pmuIrqArmed = FALSE
  /\ sleepDurationWraps = 0
  /\ timeinfo = NoTime /\ sleepMinutes = 0
  /\ screen = "blank"
  /\ pc = "gts" /\ gtsCaller \in {"setup", "loop"}
  /\ consecFalse = 0 /\ consecUnrec = 0 /\ sinceCounterReset = 0
  /\ \E present \in BOOLEAN :
       decision = [NoDecision EXCEPT !.present = present, !.irq = present]
  /\ bootLog = FreshBootLog /\ safeRenders = 0
  /\ sync = NoSync /\ serial = NoSerial /\ acts = NoActs
  /\ lastStep = "Step"

\* "bool usbNowConnected = PMU.isVbusIn(); if (usbNowConnected) return;"
checkVbusBeforeSleep ==
  /\ pc = "gts"
  /\ LET usbNowConnected == decision.present IN
       IF sleepRefused(usbNowConnected)
         THEN /\ pc' = "loop_usb"
              /\ lastStep' = "SleepRefused"
              /\ gtsCaller' = "none"
              /\ UNCHANGED decision
         ELSE /\ pc' = "gts_checked"
              /\ lastStep' = "Step"
              /\ decision' = [decision EXCEPT !.taken = TRUE, !.vbus = usbNowConnected]
              /\ UNCHANGED gtsCaller
  /\ UNCHANGED <<variant, nvs, cfg, rtc, sleepRequested, usbDisconnectCount,
                 wakeup_reason, hw, sched, screen, consecFalse, consecUnrec,
                 sinceCounterReset, bootLog, safeRenders, sync, serial, acts>>

\* External power is connected: the PMU raises its VBUS insertion interrupt
\* (enabled by pmu_irq_init() while awake and by
\* pmu_prepare_for_esp32_sleep() for the sleep).
PlugIn ==
  /\ pc \in {"gts", "gts_checked", "asleep"}
  /\ ~decision.present
  /\ decision' = [decision EXCEPT !.present = TRUE, !.irq = TRUE]
  /\ lastStep' = "Step"
  /\ UNCHANGED <<variant, nvs, cfg, rtc, sleepRequested, usbDisconnectCount,
                 wakeup_reason, hw, sched, screen, pc, gtsCaller, consecFalse,
                 consecUnrec, sinceCounterReset, bootLog, safeRenders, sync, serial,
                 acts>>

\* The rest of go_to_deep_sleep() after the check: the duration, the wake
\* sources, pmu_prepare_for_esp32_sleep() ("Clear any pending interrupts":
\* disableIRQ(ALL), clearIrqStatus(), then enableIRQ of the VBUS interrupts)
\* and esp_deep_sleep_start().  An insertion after enableIRQ is latched
\* whether it comes before or after the power-off.
pmu_prepare_for_esp32_sleep ==
  /\ pc = "gts_checked"
  /\ IF variant = "weather"
       THEN \E tm \in LocalTimes(SampleTimes) :
              /\ timeinfo' = tm
              /\ sleepMinutes' = calculateNextWakeMinutes(tm.ok, tm.minutes)
              /\ sleepDurationS' = weatherSleepDuration(isConfigured, sleepMinutes')
              /\ UNCHANGED cfg
       ELSE /\ sleepDurationS' = stravaSleepDuration(nvs.ssid, nvs.hours)
            /\ cfg' = EmptyConfig
            /\ UNCHANGED sched
  /\ sleepDurationWraps' = uint64Wraps(sleepDurationS')
  /\ wakeSources' = armedWakeSources
  /\ decision' = [decision EXCEPT !.irq = FALSE]
  /\ pmuIrqArmed' = TRUE
  /\ pc' = "asleep"
  /\ sleepRequested' = FALSE
  /\ gtsCaller' = "none"
  /\ lastStep' = "Step"
  /\ UNCHANGED <<variant, nvs, rtc, usbDisconnectCount, wakeup_reason, screen,
                 consecFalse, consecUnrec, sinceCounterReset, bootLog, safeRenders,
                 sync, serial, acts>>

\* An armed wake source fires: the timer and the button at any time, ext0
\* while the PMU holds its IRQ line low.
WakeFromSleep ==
  /\ pc = "asleep"
  /\ \E source \in wakeSources :
       /\ source = "ext0" => decision.irq
       /\ StartBoot(WakeCauseOf(source), FALSE)
  /\ lastStep' = "Reset"
  /\ UNCHANGED <<variant, nvs, rtc, screen, serial>>

NextWindow ==
  \/ checkVbusBeforeSleep
  \/ PlugIn
  \/ pmu_prepare_for_esp32_sleep
  \/ WakeFromSleep

SpecWindow == InitWindow /\ [][NextWindow]_vars

\* ================================================================== claims

\* C1: the device never enters deep sleep while external power presence is
\* reported: whenever the decision to sleep is taken, both the PMU VBUS reading
\* and the serial liveness are false at that moment.
C1_NeverSleepsWhilePresent ==
  decision.taken => ~decision.vbus /\ ~decision.serial

\* C2: a sleep attempt made while the power sense line reports present is
\* refused: every step of go_to_deep_sleep either powers off on a VBUS reading
\* that was false, or returns to the loop of its caller with no wake source
\* armed, the PMU and the timer untouched; so repeated attempts while power
\* stays present never power off.
C2_RefusedWhilePresent ==
  [][pc = "gts" /\ pc' # "boot" =>
       \/ pc' = "asleep" /\ decision'.taken /\ ~decision'.vbus
       \/ /\ pc' = "loop_usb"
          /\ lastStep' = "SleepRefused"
          /\ wakeSources' = {} /\ ~pmuIrqArmed' /\ sleepDurationS' = 0
          /\ UNCHANGED <<hw, sched, decision, nvs, cfg, screen>>]_vars

C2_Witness ==
  lastStep = "SleepRefused" /\ pc = "loop_usb" /\ wakeSources = {} /\ ~decision.taken

\* C3: in the idle loop the disconnect counter equals the number of consecutive
\* presence samples that read false since the last sample that read present (a
\* present sample resets it to 0); the debounce path attempts sleep only with
\* at least 10 of them, and the sample that makes it 10 does attempt it.
C3_DebounceCounter ==
  /\ [](usbDisconnectCount = consecFalse)
  /\ [](pc = "gts" /\ gtsCaller = "debounce" => consecFalse >= DisconnectChecks)
  /\ [][pc = "loop_usb" /\ consecFalse' > consecFalse /\ consecFalse' >= DisconnectChecks
          => pc' = "gts" /\ gtsCaller' = "debounce"]_vars

C3_Witness ==
  pc = "gts" /\ gtsCaller = "debounce" /\ consecFalse = DisconnectChecks

\* C4: every sleep entered from loop() (debounce path, GO_SLEEP, BOOT-button
\* refresh, sleep requested by a fetch command) is preceded by 10 consecutive
\* presence samples that all read false.
C4_LoopSleepNeedsTenSamples ==
  [][pc = "gts" /\ pc' = "asleep" /\ gtsCaller \in {"debounce", "sleepreq", "button"}
       => consecFalse >= DisconnectChecks]_vars

\* C5: on a boot with complete configuration woken by the power-connect signal
\* (EXT0), setup() reaches its end (the idle loop or the sleep attempt) having
\* made no network connection, no fetch and no render, and never runs the
\* update.
C5_PowerConnectWakeIdles ==
  wakeup_reason = "EXT0" /\ fullyConfigured =>
    /\ pc # "setup_update"
    /\ (pc = "setup_tail" \/ (pc = "gts" /\ gtsCaller = "setup")) =>
         ~bootLog.net /\ ~bootLog.fetch /\ ~bootLog.render

C5_Witness ==
  wakeup_reason = "EXT0" /\ fullyConfigured /\ pc = "setup_tail" /\ ~bootLog.render

C7_SafeModeTerminal ==
  /\ [](pc = "safe" => safeRenders = 1 /\ screen = "safe" /\ wakeSources = {})
  /\ [][pc = "safe" =>
          \/ pc' = "safe" /\ UNCHANGED <<nvs, cfg, rtc, hw, sched, screen,
                                         sleepRequested, safeRenders, decision>>
          \/ pc' = "boot" /\ lastStep' \in {"FactoryReset", "Reset"}
                          /\ wakeup_reason' = "UNDEFINED"]_vars

C7_Witness ==
  pc = "safe" /\ safeRenders = 1 /\ screen = "safe" /\ rapidBootCount >= CrashLoopLimit

\* C8: at the restart of a triggered factory reset the configuration is erased
\* and every retained field (bootCount, rapidBootCount, last-sync epoch,
\* last-clock-sync epoch, cached token and expiry, cached result,
\* setupScreenDrawn, manual-wake flag) is zero/empty.
C8_FactoryResetErasesAll ==
  lastStep = "FactoryReset" =>
    /\ nvs = EmptyConfig
    /\ bootCount = 0 /\ rapidBootCount = 0
    /\ lastFetchEpoch = 0 /\ lastNtpSyncEpoch = 0
    /\ cachedAccessToken = 0 /\ tokenExpiresAt = 0
    /\ cachedResult = ZeroResult(variant)
    /\ ~setupScreenDrawn /\ ~wasManualWake

\* C9: whenever the device is powered off in deep sleep, the timer, the BOOT
\* button (ext1) and the PMU IRQ (ext0) wake sources are all armed, the PMU is
\* prepared to raise the IRQ, and the timer holds the computed duration.
C9_AllWakeSourcesArmed ==
  pc = "asleep" =>
    /\ wakeSources = AllWakeSources
    /\ pmuIrqArmed
    /\ decision.taken
    /\ sleepDurationS =
         IF variant = "weather"
           THEN (IF cfg.ssid THEN sleepMinutes * 60 ELSE SLEEP_DURATION_UNCONFIGURED_S)
           ELSE (IF nvs.ssid THEN nvs.hours * 3600 ELSE SLEEP_DURATION_UNCONFIGURED_S)
    /\ sleepDurationS > 0

C9_Witness ==
  pc = "asleep" /\ variant = "strava" /\ wakeSources = AllWakeSources
    /\ sleepDurationS = 3600

\* C10: with the clock available, for every minute t of the day the returned
\* sleep is the time from t to the first schedule entry (06:00, 09:00, 12:00,
\* 15:00, 18:00, 21:00) strictly after t, or to 06:00 of the next day when no
\* entry is after t, raised to 10 minutes when it is less.
ScheduleEntries == {h * 60 : h \in {6, 9, 12, 15, 18, 21}}

TimeToNextEntry(t) ==
  LET later == {e \in ScheduleEntries : e > t} IN
  IF later = {}
    THEN (24 * 60 - t) + 6 * 60
    ELSE (CHOOSE e \in later : \A f \in later : e <= f) - t

C10_FixedSchedule ==
  pc = "scheduled" /\ timeinfo.ok =>
    /\ sleepMinutes = Max(10, TimeToNextEntry(timeinfo.minutes))
    /\ sleepMinutes >= 10

C10_Witness ==
  pc = "scheduled" /\ timeinfo.ok /\ timeinfo.minutes = 21 * 60 /\ sleepMinutes = 9 * 60

\* C11: whenever the device is powered off, the timer wake of the
\* fixed-interval policy holds exactly refreshHours * 3600 * 1,000,000 us when
\* the device is configured (an SSID is stored), and in both variants exactly
\* one week when it is unconfigured.
C11_FixedIntervalTimer ==
  pc = "asleep" =>
    /\ (variant = "strava" /\ nvs.ssid) =>
         sleepDurationS = nvs.hours * 3600 /\ sleepDurationWraps = 0
    /\ ((variant = "strava" /\ ~nvs.ssid) \/ (variant = "weather" /\ ~cfg.ssid)) =>
         sleepDurationS = SLEEP_DURATION_UNCONFIGURED_S /\ sleepDurationWraps = 0

requestsOf(kind) ==
  Cardinality({i \in 1 .. Len(sync.requests) : sync.requests[i] = kind})

\* C13: once the token step of an activity update has run, the cached token
\* was reused if and only if a cached token existed and more than 300 seconds
\* were left before its expiry (now < expiresAt - 300); a reused token costs
\* no exchange request, and otherwise exactly one exchange request was made,
\* and it precedes every activity request.
C13_ReuseIffBeforeMargin ==
  (variant = "strava" /\ sync.left \in ExpiryMargins
     /\ pc \in {"fetch_reset", "fetch_page", "fetch_stamp", "sync_draw", "sync_done"}) =>
    /\ sync.reused <=> (sync.hadToken /\ sync.left > TokenSafetyMargin)
    /\ sync.reused => requestsOf("token") = 0
    /\ ~sync.reused =>
         /\ requestsOf("token") = 1
         /\ sync.requests[1] = "token"

\* a token with exactly 300 seconds left was exchanged, then two pages were asked
C13_Witness ==
  /\ variant = "strava" /\ pc = "sync_done"
  /\ sync.hadToken /\ sync.left = TokenSafetyMargin /\ ~sync.reused
  /\ sync.requests = <<"token", "activities", "activities">>


\* C14: when the token step of an activity update fails, the update goes to
\* the drawing without any activity request or call of fetchStravaData(); the
\* cached result, the last-fetch epoch and the cached token with its expiry
\* are what they were when the update began.
C14_TokenFailureIsFatal ==
  (variant = "strava" /\ sync.tokenFailed /\ pc \in {"sync_draw", "sync_done"}) =>
    /\ requestsOf("activities") = 0
    /\ sync.calls = <<>>
    /\ cachedResult = sync.before
    /\ lastFetchEpoch = sync.beforeEpoch
    /\ <<cachedAccessToken, tokenExpiresAt>> = sync.beforeToken

\* an exchange failed while a token, a result and an epoch were cached
C14_Witness ==
  /\ variant = "strava" /\ pc = "sync_done" /\ sync.tokenFailed
  /\ sync.requests = <<"token">>
  /\ cachedAccessToken = 1 /\ tokenExpiresAt = 1
  /\ cachedResult["activities"] = 1 /\ lastFetchEpoch = 1


\* C15: in a weather update that got a connection, once the fetches are over
\* fetchWeatherData(), fetchTideData() and fetchSurfData() have each been
\* called exactly once, in that order, whatever the others returned (the
\* weather and surf requests were each sent once, the tide request once when
\* the clock was readable), and every source that failed has the cached
\* readings it had when the update began.
C15_SourcesIndependent ==
  (variant = "weather" /\ sync.wifi /\ pc \in {"sync_stamp", "sync_draw", "sync_done"}) =>
    /\ sync.calls = WeatherOrder
    /\ requestsOf("weather") = 1 /\ requestsOf("surf") = 1
    /\ requestsOf("tide") = (IF sync.clock THEN 1 ELSE 0)
    /\ \A src \in Sources(variant) \ sync.ok : cachedResult[src] = sync.before[src]

\* the first source failed, the two after it were fetched and stored
C15_Witness ==
  /\ variant = "weather" /\ sync.wifi /\ pc = "sync_done"
  /\ sync.ok = {"tide", "surf"}
  /\ sync.requests = WeatherOrder
  /\ sync.before["weather"] = 0 /\ cachedResult["weather"] = 0
  /\ cachedResult["tide"] = 1 /\ cachedResult["surf"] = 1


\* C16: an update in which no data source succeeded leaves the retained state
\* as it was: at the drawing, the last-fetch epoch and the cached result have
\* the values they had when the update began.
C16_StampOnlyOnSuccess ==
  (pc \in {"sync_draw", "sync_done"} /\ sync.ok = {}) =>
    /\ lastFetchEpoch = sync.beforeEpoch
    /\ cachedResult = sync.before


\* C17: the activity pages are requested in increasing order from page 1: while
\* the loop runs, the next page to ask is one more than the number of requests
\* made, it is at most 10, and every page received so far held records; the
\* loop is over only after an error, an empty page or the 10th request, so a
\* short page that holds records does not end it.
C17_PaginationStops ==
  /\ (variant = "strava" /\ pc = "fetch_page") =>
       /\ sync.page = requestsOf("activities") + 1
       /\ sync.page <= MaxPages
       /\ requestsOf("activities") > 0 => sync.lastPage > 0
  /\ (variant = "strava" /\ sync.calls = <<"activities">>
        /\ pc \in {"fetch_stamp", "sync_draw", "sync_done"}) =>
       /\ requestsOf("activities") \in 1 .. MaxPages
       /\ \/ sync.lastPage \in {PageError, 0}
          \/ requestsOf("activities") = MaxPages
       /\ sync.totalActivities >= ShortPage * (requestsOf("activities") - 1)

\* pages of 30, 30 and 5 records and an empty fourth page: 4 requests, 65 records
C17_Witness ==
  /\ variant = "strava" /\ pc = "sync_done"
  /\ requestsOf("activities") = 4
  /\ sync.totalActivities = PerPage + PerPage + ShortPage
  /\ sync.lastPage = 0


\* C18: the retained result is never seen partly written: in the first state
\* of a boot no source of the cached result is in the middle of its writes.
C18_NoPartialRetainedState ==
  pc = "boot" => \A src \in Sources(variant) : cachedResult[src] # PartlyWritten


\* C19: every update ends with the dashboard drawn, and an update that tried
\* to fetch and lost the connection, the token or a source draws it with the
\* stale mark.
C19_StaleWhenFailed ==
  pc = "sync_done" =>
    /\ screen = "dashboard"
    /\ (sync.fetch /\ (~sync.wifi \/ sync.tokenFailed
                         \/ Sources(variant) \ sync.ok # {})) => sync.stale


\* C20: a sleep request is deferred, not dropped: an iteration of loop() that
\* finds a request pending and does not go to sleep leaves the request pending.
C20_SleepRequestDeferred ==
  [][(sleepRequested /\ pc = "loop_cmd" /\ pc' = "loop_usb") => sleepRequested']_vars


\* a JSON number that a 32-bit int holds
wholeNumber(x) == x[2] = 0

\* a JSON number that a single-precision float holds
singlePrecision(x) ==
  \/ x[1] < 2 ^ (FloatMantissaBits - 1)
  \/ x[2] = 0 /\ (x[1] < 2 ^ FloatMantissaBits \/ x[1] % 2 = 0)

\* a value that the type of its key in the store can hold
holdsExactly(k, v) ==
  /\ k \in IntKeys => wholeNumber(v)
  /\ k \in FloatKeys => singlePrecision(v)

\* C21 as stated: GET_CONFIG after a full SET_CONFIG returns, for every key,
\* exactly the value that was written, and right after a full SET_CONFIG
\* (which carries the credential keys) no token is cached.
C21_RoundTripExact ==
  /\ (serial.line = "GET_CONFIG" /\ DOMAIN serial.written # {}) =>
       \A k \in Keys : serial.sent[k] = serial.written[k]
  /\ (serial.line = "SET_CONFIG" /\ serial.reply = <<"SUCCESS">>
        /\ DOMAIN serial.written # {}) =>
       cachedAccessToken = 0 /\ tokenExpiresAt = 0

\* C21 amended: GET_CONFIG after a full SET_CONFIG returns exactly the value
\* written for every key whose value the stored type holds (any string, a
\* whole number for refreshHours and trackPeriod, a single-precision number
\* for goal), and right after a full SET_CONFIG no token is cached.
C21_RoundTripRepresentable ==
  /\ (serial.line = "GET_CONFIG" /\ DOMAIN serial.written # {}) =>
       \A k \in Keys :
         holdsExactly(k, serial.written[k]) => serial.sent[k] = serial.written[k]
  /\ (serial.line = "SET_CONFIG" /\ serial.reply = <<"SUCCESS">>
        /\ DOMAIN serial.written # {}) =>
       cachedAccessToken = 0 /\ tokenExpiresAt = 0

\* a full document with representable numbers was written, a token was
\* fetched with it, and GET_CONFIG returned the document
C21_Witness ==
  /\ serial.line = "GET_CONFIG" /\ DOMAIN serial.written # {}
  /\ \A k \in Keys : holdsExactly(k, serial.written[k])
  /\ \A k \in Keys : serial.sent[k] = serial.written[k]
  /\ serial.sent["configured"] /\ serial.sent["hasStrava"]
  /\ cachedAccessToken = 1


\* the lines a host reads as the end of a reply
TerminalTokens == {"OK", "ERROR", "SUCCESS", "WIPED", "SETUP_SCREEN_DRAWN"}
\* the commands that change the device
MutatingCommands == {"SET_CONFIG", "WIPE_CONFIG", "DELETE_DATA", "GO_SLEEP", "RESTART"}

\* the number of terminal tokens in the reply to the last line
terminalTokensSent ==
  Cardinality({i \in 1 .. Len(serial.reply) : serial.reply[i] \in TerminalTokens})

\* C22: the reply to an unrecognized line is the error token, and the reply
\* to an unrecognized line or to a mutating command holds exactly one
\* terminal token.
C22_OneTerminalToken ==
  /\ serial.line = "HELLO" => serial.reply = <<"ERROR">>
  /\ serial.line \in MutatingCommands \cup {"HELLO"} => terminalTokensSent = 1


\* C23: a boot that wakes on the power-connect signal (EXT0) never draws the
\* first-run screen.
C23_NoRedrawOnPowerConnect ==
  bootLog.firstRun => wakeup_reason # "EXT0"


\* C24: a boot with incomplete configuration never connects or fetches, and
\* when that boot ends in deep sleep the timer is the one-week unconfigured
\* duration.
C24_UnconfiguredBootSleepsAWeek ==
  [][(pc = "gts" /\ gtsCaller = "setup" /\ ~FullyConfiguredIn(cfg))
       => /\ ~bootLog.net /\ ~bootLog.fetch
          /\ (pc' = "asleep" => sleepDurationS' = SLEEP_DURATION_UNCONFIGURED_S)]_vars


C26_ClockSyncSkipRule ==
  [][(pc = "sync_time" /\ pc' # "boot")
       => /\ sync'.ntp = "skipped"
               <=> (lastNtpSyncEpoch > 0
                      /\ sync'.now - lastNtpSyncEpoch < 12 * 60 * 60)
          /\ sync'.ntp \in {"skipped", "failed"}
               => lastNtpSyncEpoch' = lastNtpSyncEpoch
          /\ sync'.ntp = "synced" => lastNtpSyncEpoch' \in SyncedEpochs]_vars

\* a synchronisation attempted exactly 12 hours after the previous one, which
\* failed and left the epoch alone
C26_Witness ==
  /\ sync.ntp = "failed" /\ lastNtpSyncEpoch = 1
  /\ sync.now - lastNtpSyncEpoch = 12 * 60 * 60


\* the metres, the seconds (what = "distance" / "moving_time") or the number
\* (what = "count") of the records among the first n of the response that are
\* of the tracked sport with 0 < km < 1000 and 0 < hours < 100
RECURSIVE acceptedTotal(_, _, _)
acceptedTotal(page, n, what) ==
  IF n = 0 THEN 0
  ELSE LET r == page[n]
           accepted == /\ r.type = SPORT_TYPE
                       /\ r.distance > 0 /\ r.distance < 1000000
                       /\ r.moving_time > 0 /\ r.moving_time < 360000
       IN acceptedTotal(page, n - 1, what)
            + (IF ~accepted THEN 0 ELSE IF what = "count" THEN 1 ELSE r[what])

\* C27: while the records are read, the distance total, the time total and the
\* activity count are those of the in-range records of the tracked sport seen
\* so far: an out-of-range record adds nothing, an in-range one is counted
\* whatever came before it.
C27_OutOfRangeDiscarded ==
  pc \in {"acts_scan", "acts_done"}
    => /\ acts.kmDone = acceptedTotal(acts.page, acts.next - 1, "distance")
       /\ acts.timeHours = acceptedTotal(acts.page, acts.next - 1, "moving_time")
       /\ acts.activitiesCount = acceptedTotal(acts.page, acts.next - 1, "count")

\* a response read to its end with an out-of-range record of the tracked
\* sport between two in-range ones, both counted
C27_Witness ==
  /\ pc = "acts_done" /\ Len(acts.page) = 3
  /\ acts.page[2].type = SPORT_TYPE /\ acts.page[2].distance = 0
  /\ acts.activitiesCount = 2 /\ acts.kmDone = 12000


\* the position of the first record of the response that is of the tracked
\* sport and in range, 0 when there is none
firstAccepted(page) ==
  LET hits == {i \in 1 .. Len(page) :
                 acceptedTotal(page, i, "count") = 1
                   /\ acceptedTotal(page, i - 1, "count") = 0}
  IN IF hits = {} THEN 0 ELSE CHOOSE i \in hits : TRUE

\* C28: after the fetch, title, date, distance and moving time of the
\* last-activity detail all come from the first record of the tracked sport
\* that passed validation, the path too when that record has one; a record
\* dropped by validation supplies no field.
C28_DetailFirstSeenWins ==
  pc = "acts_done"
    => LET f == firstAccepted(acts.page) IN
       /\ acts.last.title = f /\ acts.last.date = f
       /\ acts.last.distance = f /\ acts.last.moving = f
       /\ acts.last.polyline = (IF f # 0 /\ acts.page[f].polyline THEN f ELSE 0)


\* the place of a phase in the order connectivity, clock, credential, fetch
phaseRank(phase) ==
  CASE phase = "connect" -> 1
    [] phase = "clock" -> 2
    [] phase = "credential" -> 3
    [] phase = "fetch" -> 4

\* the phases an update has gone through so far
phasesDone == {sync.phases[i] : i \in DOMAIN sync.phases}

\* C29: the phases of one update run in the order connectivity, clock,
\* credential, fetch: none runs twice or before an earlier one, the clock
\* phase runs only after a connection that was established, the credential
\* phase only after the clock phase, the fetch only after the clock phase and,
\* in the activity variant, the credential phase; no token or data request is
\* issued in an update whose connection was not established.
C29_PhasesInOrder ==
  /\ \A i, j \in DOMAIN sync.phases :
       i < j => phaseRank(sync.phases[i]) < phaseRank(sync.phases[j])
  /\ "clock" \in phasesDone => ("connect" \in phasesDone /\ sync.wifi)
  /\ "credential" \in phasesDone => "clock" \in phasesDone
  /\ "fetch" \in phasesDone
       => /\ "clock" \in phasesDone
          /\ variant = "strava" => "credential" \in phasesDone
  /\ sync.requests # <<>> => (sync.wifi /\ "clock" \in phasesDone)

\* an update of the activity variant that went through the four phases and
\* asked for a token and a page
C29_Witness ==
  /\ sync.phases = <<"connect", "clock", "credential", "fetch">>
  /\ sync.requests = <<"token", "activities">>


\* C30: after WIPE_CONFIG or DELETE_DATA the stored configuration is empty and
\* every retained field (boot counters, epochs, cached token, cached result,
\* setup-screen flag, manual-wake flag) is zero or empty; DELETE_DATA has also
\* drawn the setup screen.
C30_WipeClearsRetainedState ==
  serial.line \in {"WIPE_CONFIG", "DELETE_DATA"}
    => /\ nvs = EmptyConfig /\ ~cfg.ssid /\ ~cfg.creds
       /\ serial.prefs = NoPrefs
       /\ bootCount = 0 /\ rapidBootCount = 0
       /\ lastFetchEpoch = 0 /\ lastNtpSyncEpoch = 0
       /\ cachedAccessToken = 0 /\ tokenExpiresAt = 0
       /\ cachedResult = ZeroResult(variant)
       /\ ~setupScreenDrawn /\ ~wasManualWake
       /\ serial.line = "DELETE_DATA" => screen = "setup"


\* C31: when the BOOT button is released before it has been held for the
\* hold time, checkFactoryReset() returns false (setup() goes on) and has
\* changed neither the stored configuration nor any retained field.
C31_ReleasedEarlyChangesNothing ==
  [][(pc = "boot" /\ bootLog.heldMs < 5000)
       => (pc' = "setup_main" /\ UNCHANGED <<nvs, cfg, rtc>>)]_vars

\* a button released one millisecond short of the hold time, on a device
\* with a stored configuration and retained data, and setup() has gone on
C31_Witness ==
  /\ pc = "setup_main" /\ bootLog.heldMs = 4999
  /\ nvs.ssid /\ bootCount = 1 /\ lastFetchEpoch = 1


\* C32: bootCount counts the boots: it starts at 0, every boot adds one and
\* only a factory reset (followed by a boot) takes it back, so a device that
\* has booted and gone to deep sleep has a bootCount of at least one.
C32_EveryBootCounted ==
  pc = "asleep" => bootCount >= 1


\* C33: an unconfigured device whose panel already shows the first-run
\* screen, woken from deep sleep by the timer or by the power-connect signal,
\* does not draw the first-run screen again in that boot.
C33_FirstRunDrawnOnce ==
  [][(pc = "boot" /\ screen = "setup" /\ wakeup_reason \in {"TIMER", "EXT0"}
        /\ pc' \notin {"boot", "safe"} /\ ~FullyConfiguredIn(cfg'))
       => ~bootLog'.firstRun]_vars


\* C34: a boot that starts its update always comes to deep sleep or to the
\* idle loop: every wait of the update ends, by success or by its bound.
C34_BootEnds ==
  <>(pc \in {"asleep", "loop_usb"})


\* C35: the line buffer never holds more than 2048 characters: a character
\* that arrives when it holds 2048 is dropped, every terminator leaves it
\* empty, and a terminator that finds it empty dispatches no command.
C35_LineBufferBounded ==
  [][/\ serial'.buffer <= 2048
     /\ (serial.buffer = 2048 /\ serial'.did \in {"appended", "dropped"})
          => (serial'.did = "dropped" /\ serial'.buffer = 2048)
     /\ serial'.did \in {"dispatched", "skipped"} => serial'.buffer = 0
     /\ (serial.buffer = 0 /\ serial'.did \in {"dispatched", "skipped"})
          => serial'.did = "skipped"]_vars

\* a character was dropped from a full buffer
C35_Witness ==
  serial.did = "dropped" /\ serial.buffer = 2048


\* C36: while an update waits for the network association, no step other
\* than a reset starts a second update inside it or changes the
\* configuration (in RAM or stored) or the cached token the update works with.
C36_NoCommandDuringSync ==
  [][(pc = "sync" /\ cfg.ssid /\ pc' # "boot")
       => /\ ~sync'.nested
          /\ cfg' = cfg /\ nvs' = nvs
          /\ cachedAccessToken' = cachedAccessToken
          /\ tokenExpiresAt' = tokenExpiresAt]_vars


\* C37: rapidBootCount changes only in the wake classification at boot (or a
\* factory reset): it grows only on a boot with an undetermined trigger, it
\* is cleared only on a boot with a recognized trigger, and no later step of
\* the boot, a completed dashboard update included, modifies it.
C37_CrashCounterOnlyAtBoot ==
  [][/\ rapidBootCount' > rapidBootCount
          => (pc = "boot" /\ wakeup_reason = "UNDEFINED")
     /\ rapidBootCount' < rapidBootCount
          => (pc = "boot" /\ (wakeup_reason # "UNDEFINED"
                                \/ lastStep' = "FactoryReset"))]_vars


C39_NoMissedConnection ==
  (pc = "asleep" /\ decision.taken /\ decision.present)
    => ("ext0" \in wakeSources /\ decision.irq)


\* C40: whenever the device is powered off, the armed timer duration is
\* strictly positive, is at least the anti-thrash minimum of MinSleepMinutes
\* minutes, and is not a value wrapped around by the unsigned 64-bit
\* arithmetic, whatever refresh interval is stored.
C40_TimerAlwaysPositive ==
  pc = "asleep" =>
    /\ "timer" \in wakeSources
    /\ sleepDurationWraps = 0
    /\ sleepDurationS > 0
    /\ sleepDurationS >= MinSleepMinutes * 60

====
